---- MODULE Spec2Model ----
(***************************************************************************)
(* A model of polydb: the hash-chained audit ledger (audit/), the          *)
(* DatabaseFactory orchestration of create/read/update/upsert/delete and   *)
(* query_linq (databaseFactory.py) with its cache (cache.py), tenant       *)
(* enforcer (multitenancy.py) and row-level security (security.py), the    *)
(* two paging adapters (PostgreSQLAdapter.select_page,                     *)
(* NoSQLKVAdapter.query_page), the two query_linq pipelines (query.py) and *)
(* the overflow handling of the generic engine (base/NoSQLKVAdapter.py).   *)
(*                                                                         *)
(* Modelling conventions                                                   *)
(*  - Python None is NoTenant for a tenant id, Null for a hash and NULL    *)
(*    for a nullable column.                                               *)
(*  - sha256 over the canonical JSON of a record is modelled by the tuple  *)
(*    of the hashed fields: injective, as a collision-free digest is.      *)
(*  - datetime.utcnow() is read once per AuditRecord.create; the model     *)
(*    gives every read a fresh, larger value (microsecond clock, no two    *)
(*    records with the same timestamp), so ORDER BY timestamp is total.    *)
(*  - One model is registered; its table holds rows keyed by id with the   *)
(*    two columns the factory maintains itself (tenant_id, deleted_at).    *)
(*    The NoSQL path is the MongoDB adapter's.                             *)
(*  - A factory call is one action; its result stays visible in the c_*    *)
(*    variables until the caller drops it (Forget) and makes the next      *)
(*    call.  In SpecWrite / SpecCrud the outcome of AuditManager.record    *)
(*    (persisted or raised) is an input of the call; the ledger it writes  *)
(*    to is the subject of Spec and SpecLedger.                            *)
(*  - A record of the generic engine is a function from field names to     *)
(*    values; its JSON bytes are the tagged record, md5 the tagged bytes,  *)
(*    its size the length of its body field.                               *)
(*  - A row-level-security policy is its apply_to tag and one of two       *)
(*    predicates over items.                                               *)
(***************************************************************************)
EXTENDS Integers, Sequences, FiniteSets, TLC

\* ------------------------------------------------------------------ bounds
NumThreads == 2
MaxRecords == 3
MaxCalls == 2
MaxEdits == 1
NumIds == 2
MaxPageSize == 2
MaxPages == 2
MaxCached == 2

\* filters per QueryBuilder
MaxFilters == 2

\* the adapter's max_size (1 MB in the code), in bytes of the model
MaxSize == 4

\* policies registered for the model
MaxPolicies == 1

\* records in a dataset that is sorted
MaxRows == 3

\* the largest max_attempts given to retry
MaxTries == 3

\* encryption keys and nonces
NumKeysAes == 2
NumNonces == 2

\* blobs altered in one behaviour
MaxAltered == 1

\* advisory locks left held by blocks that raised
MaxLeaks == 2

\* items in a bulk call, and the largest chunk_size
MaxItems == 4
MaxChunk == 3

\* field and filter values are the numbers -MaxNumber..MaxNumber
MaxNumber == 1

\* keys of the engine's collection, and put and patch calls in one behaviour
NumKeys == 2
MaxWrites == 3

\* stop_after_attempt(3) of _DEFAULT_RETRY
MaxAttempts == 3

\* @retry(max_attempts=3, ...) on the methods of PostgreSQLAdapter
SqlAttempts == 3

\* @retry(max_attempts=3, ...) on NoSQLKVAdapter._retrieve_overflow
RetrieveAttempts == 3

\* POSTGRES_MIN_CONNECTIONS, the pool's minconn
MinConn == 2

\* --------------------------------------------------------------- constants
NoTenant == "none"
TenantIds == {"t1", "t2"}
TenantValues == TenantIds \cup {NoTenant}
Null == <<>>
Payloads == {0}
TamperedPayloads == {1}
Threads == 1..NumThreads

VARIABLES
    ledger,         \* polydb_audit_log rows, in the order they were inserted
    clock,          \* next value of datetime.utcnow() / uuid4(): 1, 3, 5, ...
    apc,            \* per thread: where it is inside AuditManager.record
    a_tenant,       \* per thread: tenant_id read from AuditContext
    a_data,         \* per thread: the payload (action, model, before, after...)
    a_prev,         \* per thread: previous_hash returned by get_last_hash
    a_rec,          \* per thread: the AuditRecord built by AuditRecord.create
    overlapped,     \* history: some record call began while another was running
    tailReadFailed, \* history: some get_last_hash swallowed an exception
    persistFailed,  \* history: some persist raised
    calledTenants,  \* history: tenants record was called for
    edits,          \* history: number of direct edits of the ledger table
    \* --- DatabaseFactory and the table of one registered model
    cfg,            \* constructor flags and the model's storage kind
    db,             \* the model's table / collection: id -> row
    c_op,           \* last call: "create", "update", "upsert", "delete", "read", "none"
    c_args,         \* last call: its arguments
    c_outcome,      \* last call: returned, or raised and what
    c_storageOk,    \* last call: the storage step succeeded (success = True)
    c_attempts,     \* last call: how often _op ran under _run
    c_audits,       \* last call: the AuditManager.record invocations, in order
    c_rows,         \* last call: the rows a read returned (ids, in order)
    c_token,        \* last call: the continuation token read_page returned
    c_prev,         \* last call: the read_page call it continued, or Null
    \* --- the external cache (RedisCacheEngine)
    cache,          \* the entries set and not yet expired: key and value
    h_fresh,        \* history: the read answered last, no write / expiry since
    c_adapter,      \* last call: calls of the storage adapter's read methods
    c_cacheBefore,  \* last call: the cache as the call found it
    c_count,        \* last call: the number a counting query_linq returned
    \* --- functions of the adapters applied to an input
    p_fn,           \* the function applied, or "none"
    p_in,           \* its input
    p_out,          \* its result
    \* --- the generic NoSQL engine (base/NoSQLKVAdapter.py) over MongoDB
    docs,           \* the collection: id -> stored document
    blobs,          \* object storage: blob key -> bytes
    h_written,      \* history: id -> the content last written under it
    h_altered,      \* history: keys of the blobs altered since they were stored
    h_writes,       \* history: number of put and patch calls made
    \* --- threads inside DatabaseFactory.read and create of a cached model
    t_pc,           \* per thread: where it is inside read or create
    t_query,        \* per thread: the query its read hands to cache and adapter
    t_rows,         \* per thread: the rows its read holds
    \* --- PostgreSQLAdapter.distributed_lock of one lock name
    t_conn,         \* per thread: the pooled connection it holds, or 0
    pool,           \* ThreadedConnectionPool: the idle connections, last put last
    advisory        \* pg_locks: the session holding the advisory lock, how often

auditVars == <<ledger, clock, apc, a_tenant, a_data, a_prev, a_rec,
               overlapped, tailReadFailed, persistFailed, calledTenants, edits>>

crudVars == <<cfg, db, c_op, c_args, c_outcome, c_storageOk, c_attempts,
              c_audits, c_rows, c_token, c_prev, cache, h_fresh, c_adapter,
              c_cacheBefore, c_count>>

pureVars == <<p_fn, p_in, p_out, docs, blobs, h_written, h_altered, h_writes>>

lockVars == <<t_conn, pool, advisory>>

raceVars == <<t_pc, t_query, t_rows, lockVars>>

vars == <<auditVars, crudVars, pureVars, raceVars>>

\* ------------------------------------------------------------ audit/models
\* AuditRecord.create: sha256(json.dumps(asdict(record), sort_keys=True)) with
\* record.hash still None: every field but hash, previous_hash included.
AuditHash(r) ==
    <<r.audit_id, r.timestamp, r.tenant_id, r.data, r.previous_hash>>

AuditRecordCreate(id, now, tenant, data, previous_hash) ==
    LET record == [audit_id |-> id, timestamp |-> now, tenant_id |-> tenant,
                   data |-> data, previous_hash |-> previous_hash, hash |-> Null]
    IN [record EXCEPT !.hash = AuditHash(record)]

\* ------------------------------------------------------ audit/AuditStorage
\* builder.where('tenant_id', EQ, tenant_id) only when tenant_id is not None
TenantRows(l, tenant_id) ==
    IF tenant_id # NoTenant
    THEN {i \in DOMAIN l : l[i].tenant_id = tenant_id}
    ELSE DOMAIN l

\* ORDER BY timestamp ASC over the selected rows
RECURSIVE OrderByTimestamp(_, _)
OrderByTimestamp(l, rows) ==
    IF rows = {} THEN <<>>
    ELSE LET first == CHOOSE i \in rows :
                         \A j \in rows : l[i].timestamp <= l[j].timestamp
         IN <<l[first]>> \o OrderByTimestamp(l, rows \ {first})

\* get_last_hash, the query succeeding: ORDER BY timestamp DESC LIMIT 1
LastHash(l, tenant_id) ==
    LET results == OrderByTimestamp(l, TenantRows(l, tenant_id))
    IN IF Len(results) > 0 THEN results[Len(results)].hash ELSE Null

\* get_last_hash: "except Exception: return None"
GetLastHash(l, tenant_id, raises) ==
    IF raises THEN Null ELSE LastHash(l, tenant_id)

\* (mutant) the loop never advances prev_hash
WalkChainStalePrev(records, k, prev_hash) ==
    \A n \in k..Len(records) : records[n].previous_hash = prev_hash

\* the loop of verify_chain over the fetched records
RECURSIVE WalkChain(_, _, _)
WalkChain(records, k, prev_hash) ==
    IF k > Len(records) THEN TRUE
    ELSE IF records[k].previous_hash # prev_hash THEN FALSE
    ELSE WalkChain(records, k + 1, records[k].hash)

VerifyChain(l, tenant_id) ==
    LET records == OrderByTimestamp(l, TenantRows(l, tenant_id))
    IN IF Len(records) = 0 THEN TRUE ELSE WalkChain(records, 1, Null)

\* ------------------------------------------------------ audit/manager.py
Idle(th) == apc[th] = "idle"

\* AuditManager.record is entered: tenant_id = AuditContext.tenant_id.get()
RecordBegin(th) ==
    /\ apc[th] = "idle"
    /\ clock < 2 * MaxRecords
    /\ \E t \in TenantValues, d \in Payloads :
          /\ a_tenant' = [a_tenant EXCEPT ![th] = t]
          /\ a_data' = [a_data EXCEPT ![th] = d]
          /\ calledTenants' = calledTenants \cup {t}
    /\ apc' = [apc EXCEPT ![th] = "begun"]
    /\ overlapped' = (overlapped \/ \E o \in Threads \ {th} : apc[o] # "idle")
    /\ UNCHANGED <<ledger, clock, a_prev, a_rec, tailReadFailed, persistFailed, edits>>
    /\ UNCHANGED <<crudVars, pureVars, raceVars>>

\* previous_hash = self.storage.get_last_hash(tenant_id): the lock is taken and
\* released inside the call, so the step is atomic and nothing is held after it
RecordGetLastHash(th) ==
    /\ apc[th] = "begun"
    /\ \E raises \in BOOLEAN :
          /\ a_prev' = [a_prev EXCEPT ![th] = GetLastHash(ledger, a_tenant[th], raises)]
          /\ tailReadFailed' = (tailReadFailed \/ raises)
    /\ apc' = [apc EXCEPT ![th] = "hashed"]
    /\ UNCHANGED <<ledger, clock, a_tenant, a_data, a_rec, overlapped,
                   persistFailed, calledTenants, edits>>
    /\ UNCHANGED <<crudVars, pureVars, raceVars>>

\* record = AuditRecord.create(..., previous_hash=previous_hash)
RecordCreate(th) ==
    /\ apc[th] = "hashed"
    /\ a_rec' = [a_rec EXCEPT ![th] =
                    AuditRecordCreate(clock, clock, a_tenant[th], a_data[th], a_prev[th])]
    /\ clock' = clock + 2
    /\ apc' = [apc EXCEPT ![th] = "created"]
    /\ UNCHANGED <<ledger, a_tenant, a_data, a_prev, overlapped, tailReadFailed,
                   persistFailed, calledTenants, edits>>
    /\ UNCHANGED <<crudVars, pureVars, raceVars>>

\* self.storage.persist(record): the insert under the lock; it may raise.
\* record() returns (or raises) and its locals are gone.
RecordPersist(th) ==
    /\ apc[th] = "created"
    /\ \E raises \in BOOLEAN :
          /\ ledger' = IF raises THEN ledger ELSE Append(ledger, a_rec[th])
          /\ persistFailed' = (persistFailed \/ raises)
    /\ apc' = [apc EXCEPT ![th] = "idle"]
    /\ a_tenant' = [a_tenant EXCEPT ![th] = NoTenant]
    /\ a_data' = [a_data EXCEPT ![th] = 0]
    /\ a_prev' = [a_prev EXCEPT ![th] = Null]
    /\ a_rec' = [a_rec EXCEPT ![th] = Null]
    /\ UNCHANGED <<clock, overlapped, tailReadFailed, calledTenants, edits>>
    /\ UNCHANGED <<crudVars, pureVars, raceVars>>

\* AuditManager.record run to completion by a single caller
Record ==
    /\ \A th \in Threads : apc[th] = "idle"
    /\ clock < 2 * MaxCalls
    /\ \E t \in TenantValues, d \in Payloads, readRaises \in BOOLEAN, persistRaises \in BOOLEAN :
          LET previous_hash == GetLastHash(ledger, t, readRaises)
              record == AuditRecordCreate(clock, clock, t, d, previous_hash)
          IN ledger' = IF persistRaises THEN ledger ELSE Append(ledger, record)
    /\ clock' = clock + 2
    /\ UNCHANGED <<apc, a_tenant, a_data, a_prev, a_rec, overlapped,
                   tailReadFailed, persistFailed, calledTenants, edits>>
    /\ UNCHANGED <<crudVars, pureVars, raceVars>>

\* ------------------------------------------- direct edits of the ledger table
\* Timestamps no row of the table carries and no later utcnow() returns: the
\* clock of the model takes the odd values, these are the even ones between
FreeTimestamps(l) ==
    {2 * n : n \in 0..MaxCalls} \ {l[i].timestamp : i \in DOMAIN l}

\* A row written to polydb_audit_log by someone other than AuditManager: any
\* tenant, any place in the timestamp order, any previous_hash a row could carry
ForeignInsert ==
    /\ edits < MaxEdits
    /\ \E t \in TenantValues, ts \in FreeTimestamps(ledger),
          ph \in {Null} \cup {ledger[i].hash : i \in DOMAIN ledger} :
          ledger' = Append(ledger, AuditRecordCreate(100 + edits, ts, t, 0, ph))
    /\ edits' = edits + 1
    /\ UNCHANGED <<clock, apc, a_tenant, a_data, a_prev, a_rec, overlapped,
                   tailReadFailed, persistFailed, calledTenants>>
    /\ UNCHANGED <<crudVars, pureVars, raceVars>>

\* A stored row's payload column is rewritten in place; hash and previous_hash
\* are left as they were
TamperField ==
    /\ edits < MaxEdits
    /\ \E i \in DOMAIN ledger, d \in Payloads \cup TamperedPayloads :
          /\ d # ledger[i].data
          /\ ledger' = [ledger EXCEPT ![i].data = d]
    /\ edits' = edits + 1
    /\ UNCHANGED <<clock, apc, a_tenant, a_data, a_prev, a_rec, overlapped,
                   tailReadFailed, persistFailed, calledTenants>>
    /\ UNCHANGED <<crudVars, pureVars, raceVars>>

InitAudit ==
    /\ ledger = <<>>
    /\ clock = 1
    /\ apc = [th \in Threads |-> "idle"]
    /\ a_tenant = [th \in Threads |-> NoTenant]
    /\ a_data = [th \in Threads |-> 0]
    /\ a_prev = [th \in Threads |-> Null]
    /\ a_rec = [th \in Threads |-> Null]
    /\ overlapped = FALSE
    /\ tailReadFailed = FALSE
    /\ persistFailed = FALSE
    /\ calledTenants = {}
    /\ edits = 0

\* no thread is inside a read or a create
InitNoThreads ==
    /\ t_pc = [th \in Threads |-> "idle"]
    /\ t_query = [th \in Threads |-> Null]
    /\ t_rows = [th \in Threads |-> <<>>]
    /\ t_conn = [th \in Threads |-> 0]
    /\ pool = <<>>
    /\ advisory = [holder |-> 0, count |-> 0]

NextAudit ==
    \E th \in Threads :
        \/ RecordBegin(th)
        \/ RecordGetLastHash(th)
        \/ RecordCreate(th)
        \/ RecordPersist(th)

\* No DatabaseFactory call is made: the ledger is driven directly
InitNoFactory ==
    /\ cfg = [storage |-> "sql", soft_delete |-> FALSE, audit |-> TRUE,
              audit_reads |-> FALSE, retries |-> TRUE, enforcer |-> FALSE,
              rls |-> FALSE, cache |-> FALSE, meta_cache |-> FALSE,
              tenants |-> TenantValues, policies |-> {}]
    /\ db = [i \in 1..NumIds |-> [present |-> FALSE, tenant_id |-> NoTenant, deleted_at |-> 0]]
    /\ c_op = "none"
    /\ c_args = Null
    /\ c_outcome = "none"
    /\ c_storageOk = FALSE
    /\ c_attempts = 0
    /\ c_audits = <<>>
    /\ c_rows = <<>>
    /\ c_token = Null
    /\ c_prev = Null
    /\ cache = {}
    /\ h_fresh = {}
    /\ c_adapter = 0
    /\ c_cacheBefore = {}
    /\ c_count = 0

\* nothing applied, nothing stored in the engine
InitPure ==
    /\ p_fn = "none"
    /\ p_in = Null
    /\ p_out = Null
    /\ docs = <<>>
    /\ blobs = <<>>
    /\ h_written = <<>>
    /\ h_altered = {}
    /\ h_writes = 0

Init == InitAudit /\ InitNoThreads /\ InitNoFactory /\ InitPure

Next == NextAudit

\* Concurrent callers of AuditManager.record
Spec == Init /\ [][Next]_vars

NextLedger ==
    \/ Record
    \/ ForeignInsert
    \/ TamperField

\* One caller at a time, and a ledger table others can write to
SpecLedger == Init /\ [][NextLedger]_vars

\* ------------------------------------------------ the table of one model
\* Rows are keyed by id (SQL: the id column; NoSQL: pk = rk = str(id) as
\* _get_pk_rk derives them without partition configuration).  A row carries the
\* two columns the factory itself maintains; None is NoTenant for tenant_id and
\* 0 for deleted_at and id.
Ids == 1..NumIds

AbsentRow == [present |-> FALSE, tenant_id |-> NoTenant, deleted_at |-> 0]

Stored(d) == {i \in Ids : d[i].present}

Column(d, i, k) ==
    CASE k = "id" -> i
      [] k = "tenant_id" -> d[i].tenant_id
      [] k = "deleted_at" -> d[i].deleted_at

NoneOf(k) == IF k = "tenant_id" THEN NoTenant ELSE 0

\* a Lookup: column -> value
NoQuery == [k \in {} |-> 0]

\* dict.setdefault(k, v)
SetDefault(q, k, v) == IF k \in DOMAIN q THEN q ELSE (k :> v) @@ q

\* the order a scan of the table returns rows in
RECURSIVE Ascending(_)
Ascending(S) ==
    IF S = {} THEN <<>>
    ELSE LET first == CHOOSE i \in S : \A j \in S : i <= j
         IN <<first>> \o Ascending(S \ {first})

Take(rows, n) == SubSeq(rows, 1, IF n < Len(rows) THEN n ELSE Len(rows))

Skip(rows, n) == SubSeq(rows, n + 1, Len(rows))

\* PostgreSQLAdapter.select: every item of the query becomes "k = %s", the
\* value bound as a parameter; a comparison with NULL is never true.
\* "if limit:" / "if offset:" add LIMIT / OFFSET (None and 0 add nothing).
Select(d, query, limit, offset) ==
    LET where(i) == \A k \in DOMAIN query :
                        /\ query[k] # NoneOf(k)
                        /\ Column(d, i, k) # NoneOf(k)
                        /\ Column(d, i, k) = query[k]
        results == Ascending({i \in Stored(d) : where(i)})
        skipped == IF offset # 0 THEN Skip(results, offset) ELSE results
    IN IF limit # 0 THEN Take(skipped, limit) ELSE skipped

\* MongoDBAdapter._query_raw: collection.find({k: v}); a None value matches a
\* null or missing field.  cursor.limit(limit) "if limit"
QueryRaw(d, filters, limit) ==
    LET results == Ascending({i \in Stored(d) :
                        \A k \in DOMAIN filters : Column(d, i, k) = filters[k]})
    IN IF limit # 0 THEN Take(results, limit) ELSE results

\* NoSQLKVAdapter.query
Query(d, query, limit) == QueryRaw(d, query, limit)

\* str(offset + page_size) and int(continuation_token)
TokenStr(n) == <<n>>

TokenInt(token) == token[1]

\* PostgreSQLAdapter.select_page
SelectPage(d, query, page_size, continuation_token) ==
    LET offset == IF continuation_token # Null THEN TokenInt(continuation_token) ELSE 0
        results == Select(d, query, page_size + 1, offset)
        has_more == Len(results) > page_size
    IN [rows |-> IF has_more THEN Take(results, page_size) ELSE results,
        next_token |-> IF has_more THEN TokenStr(offset + page_size) ELSE Null]

\* NoSQLKVAdapter.query_page: offset is computed from the token and used for
\* the next token only; the query is run from the start
QueryPage(d, query, page_size, continuation_token) ==
    LET offset == IF continuation_token # Null THEN TokenInt(continuation_token) ELSE 0
        results == Query(d, query, page_size + 1)
        has_more == Len(results) > page_size
    IN [rows |-> IF has_more THEN Take(results, page_size) ELSE results,
        next_token |-> IF has_more THEN TokenStr(offset + page_size) ELSE Null]

\* a dict of column values merged over a row (UPDATE ... SET / $set)
Merge(row, data) ==
    [present |-> TRUE,
     tenant_id |-> IF "tenant_id" \in DOMAIN data THEN data["tenant_id"] ELSE row.tenant_id,
     deleted_at |-> IF "deleted_at" \in DOMAIN data THEN data["deleted_at"] ELSE row.deleted_at]

\* PostgreSQLAdapter.insert: INSERT ... RETURNING *; id is the primary key
Insert(d, id, data) ==
    IF d[id].present THEN [ok |-> FALSE, db |-> d]
    ELSE [ok |-> TRUE, db |-> [d EXCEPT ![id] = Merge(AbsentRow, data)]]

\* PostgreSQLAdapter.upsert: ON CONFLICT (id) DO UPDATE SET the data's columns
SqlUpsert(d, id, data) == [ok |-> TRUE, db |-> [d EXCEPT ![id] = Merge(d[id], data)]]

\* PostgreSQLAdapter.update: WHERE id = %s; "No rows updated" raises
SqlUpdate(d, id, data) ==
    IF d[id].present THEN [ok |-> TRUE, db |-> [d EXCEPT ![id] = Merge(d[id], data)]]
    ELSE [ok |-> FALSE, db |-> d]

\* PostgreSQLAdapter.delete: WHERE id = %s; "No rows deleted" raises
SqlDelete(d, id) ==
    IF d[id].present THEN [ok |-> TRUE, db |-> [d EXCEPT ![id] = AbsentRow]]
    ELSE [ok |-> FALSE, db |-> d]

\* NoSQLKVAdapter.put -> _put_raw: update_one({_pk, _rk}, {$set: data}, upsert)
Put(d, id, data) == [ok |-> TRUE, db |-> [d EXCEPT ![id] = Merge(d[id], data)]]

\* NoSQLKVAdapter.patch: existing.update(data) when the document exists, the
\* data alone when it does not; then _put_raw
Patch(d, id, data) == Put(d, id, data)

\* NoSQLKVAdapter.delete -> _delete_raw: delete_one; a missing document is no error
NoSqlDelete(d, id) == [ok |-> TRUE, db |-> [d EXCEPT ![id] = AbsentRow]]

\* ------------------------------------------------- query.py and query_linq
\* A record (a JSON dict) is a function from field names to values.
\* dict.get(k): None when the key is missing
Get(item, k) == IF k \in DOMAIN item THEN item[k] ELSE NoneOf(k)

\* The rows of a table as records, in scan order
Item(d, i) == [id |-> i, tenant_id |-> d[i].tenant_id, deleted_at |-> d[i].deleted_at]

Rows(d) == LET ids == Ascending(Stored(d)) IN [n \in 1..Len(ids) |-> Item(d, ids[n])]

\* The dataset as a collection: one document per row
DocsOf(d) == [i \in Stored(d) |-> Item(d, i)]

RowStates == {AbsentRow} \cup [present : {TRUE}, tenant_id : TenantValues, deleted_at : 0..1]

Tables == [Ids -> RowStates]

\* QueryFilter(field, Operator.EQ, value) is the one-item function
\* field :> value
FieldOf(f) == CHOOSE k \in DOMAIN f : TRUE

ValueOf(f) == f[FieldOf(f)]

\* QueryBuilder.where(field, Operator.EQ, value): the filter is appended
\* to the builder's list
Where(builder, field, value) ==
    [builder EXCEPT !.filters = Append(@, field :> value)]

\* QueryBuilder.to_sql_where for EQ filters: one "field = %s" clause
\* per filter, joined by AND, the value bound as its parameter
ToSqlWhere(builder) ==
    [n \in 1..Len(builder.filters) |->
        [column |-> FieldOf(builder.filters[n]), param |-> ValueOf(builder.filters[n])]]

\* "column = param" as PostgreSQL evaluates it: not true when either side
\* is NULL
SqlEquals(row, clause) ==
    /\ Get(row, clause.column) # NoneOf(clause.column)
    /\ clause.param # NoneOf(clause.column)
    /\ Get(row, clause.column) = clause.param

\* The values of the fields a query sorts on are strings, written as their
\* rank in string order: 0 is the empty string, 1 and 2 two other strings.
\* ORDER BY as PostgreSQL evaluates it: NULL (a missing field) sorts after
\* every value in ascending order and before every value in descending order
SqlKey(row, field) == IF field \in DOMAIN row THEN <<0, row[field]>> ELSE <<1, 0>>

SqlKeyLess(p, q) == p[1] < q[1] \/ (p[1] = q[1] /\ p[2] < q[2])

\* row x sorts strictly before row y under "ORDER BY f1 dir1, f2 dir2, ..."
SqlRowBefore(x, y, fields) ==
    \E k \in 1..Len(fields) :
        /\ \A j \in 1..(k - 1) : SqlKey(x, fields[j].field) = SqlKey(y, fields[j].field)
        /\ IF fields[k].desc
           THEN SqlKeyLess(SqlKey(y, fields[k].field), SqlKey(x, fields[k].field))
           ELSE SqlKeyLess(SqlKey(x, fields[k].field), SqlKey(y, fields[k].field))

\* the rows under ORDER BY order_parts (PostgreSQLAdapter.query_linq), rows
\* that the keys leave tied staying in scan order: row i comes after the
\* rows that sort before it
SqlOrderBy(rows, fields) ==
    LET n == Len(rows)
        before(j, i) == \/ SqlRowBefore(rows[j], rows[i], fields)
                        \/ (~SqlRowBefore(rows[i], rows[j], fields) /\ j < i)
        rank(i) == 1 + Cardinality({j \in 1..n : before(j, i)})
    IN [k \in 1..n |-> rows[CHOOSE i \in 1..n : rank(i) = k]]

\* the fields named by a list
FieldSet(fields) == {fields[n] : n \in 1..Len(fields)}

\* {k: v for k, v in item.items() if k in select_fields}; the columns of
\* SELECT fields
Project(item, select_fields) == [k \in DOMAIN item \cap FieldSet(select_fields) |-> item[k]]

\* the first of every group of equal rows
FirstSeen(rows) ==
    SelectSeq([n \in 1..Len(rows) |-> [n |-> n, row |-> rows[n]]],
              LAMBDA e : \A m \in 1..(e.n - 1) : rows[m] # e.row)

\* seen / unique in NoSQLKVAdapter.query_linq; SELECT DISTINCT
Distinct(rows) == LET kept == FirstSeen(rows) IN [n \in 1..Len(kept) |-> kept[n].row]

\* PostgreSQLAdapter.query_linq: SELECT COUNT(*) | [DISTINCT] fields | *
\* FROM table [WHERE ...] [ORDER BY ...] [LIMIT take_count] [OFFSET skip_count];
\* LIMIT and OFFSET are added "if builder.take_count" / "if
\* builder.skip_count".  COUNT(*) yields one row, which an OFFSET skips:
\* fetchone() is then None and the call raises DatabaseError.  PostgreSQL
\* rejects an ORDER BY column next to COUNT(*) without GROUP BY, and an
\* ORDER BY column that SELECT DISTINCT does not list.
SqlQueryLinq(table, builder) ==
    LET where == ToSqlWhere(builder)
        matched == SelectSeq(table, LAMBDA row : \A n \in 1..Len(where) : SqlEquals(row, where[n]))
        selected == builder.select_fields # <<>>
        listed == IF selected /\ builder.distinct
                  THEN Distinct([n \in 1..Len(matched) |->
                                    Project(matched[n], builder.select_fields)])
                  ELSE matched
        ordered == SqlOrderBy(listed, builder.order_by_fields)
        skipped == IF builder.skip_count # 0 THEN Skip(ordered, builder.skip_count) ELSE ordered
        results == IF builder.take_count # 0 THEN Take(skipped, builder.take_count) ELSE skipped
        order_fields == {builder.order_by_fields[n].field : n \in 1..Len(builder.order_by_fields)}
    IN IF builder.count_only
       THEN IF builder.skip_count # 0 \/ builder.order_by_fields # <<>>
            THEN [outcome |-> "raised", count |-> 0, rows |-> <<>>]
            ELSE [outcome |-> "ok", count |-> Len(matched), rows |-> <<>>]
       ELSE IF selected /\ builder.distinct
               /\ ~(order_fields \subseteq FieldSet(builder.select_fields))
            THEN [outcome |-> "raised", count |-> 0, rows |-> <<>>]
            ELSE [outcome |-> "ok", count |-> 0,
                  rows |-> IF selected
                           THEN [n \in 1..Len(results) |->
                                    Project(results[n], builder.select_fields)]
                           ELSE results]

\* NoSQLKVAdapter._apply_filters for EQ filters: an item is dropped when
\* item.get(f.field) != f.value
ApplyFilters(results, builder) ==
    SelectSeq(results, LAMBDA item :
        \A n \in 1..Len(builder.filters) :
            Get(item, FieldOf(builder.filters[n])) = ValueOf(builder.filters[n]))

\* key=lambda x: x.get(field, ''): the empty string for a missing field
EmptyStr == 0

SortKey(x, field) == IF field \in DOMAIN x THEN x[field] ELSE EmptyStr

\* sorted(results, key=lambda x: x.get(field, ''), reverse=desc): the last item
\* is put into the sorted list of the others, behind every item that it does
\* not sort strictly before; items with equal keys keep their order, with
\* reverse too
RECURSIVE SortedBy(_, _, _)
SortedBy(results, field, desc) ==
    IF results = <<>> THEN <<>>
    ELSE LET n == Len(results)
             x == results[n]
             others == SortedBy(SubSeq(results, 1, n - 1), field, desc)
             goes_before(e) == IF desc THEN SortKey(x, field) > SortKey(e, field)
                               ELSE SortKey(x, field) < SortKey(e, field)
         IN SelectSeq(others, LAMBDA e : ~goes_before(e)) \o <<x>>
                \o SelectSeq(others, LAMBDA e : goes_before(e))

\* mutant of OrderLoop: the keys are taken in call order
RECURSIVE OrderLoopForward(_, _, _)
OrderLoopForward(results, fields, n) ==
    IF n = 0 THEN results
    ELSE SortedBy(OrderLoopForward(results, fields, n - 1), fields[n].field, fields[n].desc)

\* for field, desc in reversed(builder.order_by_fields): results = sorted(...);
\* n keys are left, the n-th is the next one
RECURSIVE OrderLoop(_, _, _)
OrderLoop(results, fields, n) ==
    IF n = 0 THEN results
    ELSE OrderLoop(SortedBy(results, fields[n].field, fields[n].desc), fields, n - 1)

\* NoSQLKVAdapter._apply_ordering
ApplyOrdering(results, builder) ==
    IF builder.order_by_fields = <<>> THEN results
    ELSE OrderLoop(results, builder.order_by_fields, Len(builder.order_by_fields))

\* NoSQLKVAdapter._apply_projection
ApplyProjection(results, builder) ==
    IF builder.select_fields = <<>> THEN results
    ELSE [n \in 1..Len(results) |-> Project(results[n], builder.select_fields)]

\* NoSQLKVAdapter._apply_pagination
ApplyPagination(results, builder) ==
    LET skipped == IF builder.skip_count # 0 THEN Skip(results, builder.skip_count) ELSE results
    IN IF builder.take_count # 0 THEN Take(skipped, builder.take_count) ELSE skipped

\* ------------------------------------------------------------- retry.py
\* errors.py: the classes an exception class is an instance of
BasesOf(cls) ==
    IF cls \in {"StorageError", "NoSQLError", "DatabaseError", "ValidationError"}
    THEN {cls, "CloudDBError", "Exception"}
    ELSE {cls, "Exception"}

\* mutant of Caught: every exception is caught
CaughtAlways(error, exceptions) == TRUE

\* except exceptions as e
Caught(error, exceptions) == BasesOf(error) \cap exceptions # {}

\* the while loop of retry(max_attempts, delay, backoff, exceptions).wrapper;
\* results[k] is what the k-th invocation of func does: "ok" or the class of
\* the exception it raises.  attempt counts the caught failures, calls the
\* invocations
RECURSIVE RetryLoop(_, _, _, _, _)
RetryLoop(max_attempts, exceptions, results, attempt, calls) ==
    IF ~(attempt < max_attempts)
    THEN [kind |-> "returned_none", error |-> "none", calls |-> calls]
    ELSE LET result == results[calls + 1]
         IN IF result = "ok"
            THEN [kind |-> "returned", error |-> "none", calls |-> calls + 1]
            ELSE IF ~Caught(result, exceptions)
            THEN [kind |-> "raised", error |-> result, calls |-> calls + 1]
            ELSE IF attempt + 1 >= max_attempts
            THEN [kind |-> "raised", error |-> result, calls |-> calls + 1]
            ELSE RetryLoop(max_attempts, exceptions, results, attempt + 1, calls + 1)

\* retry(max_attempts, exceptions=exceptions)(func)()
Retry(max_attempts, exceptions, results) ==
    RetryLoop(max_attempts, exceptions, results, 0, 0)

\* ------------------------------------- base/NoSQLKVAdapter.py: overflow
\* json.dumps(data).encode(): the bytes of a record.  Bytes that are not the
\* JSON of a record are <<"garbage">>.
Dumps(data) == <<"json", data>>

IsJson(bytes) == bytes[1] = "json"

\* json.loads(bytes.decode()) of bytes that parse
Loads(bytes) == bytes[2]

\* len(data_bytes): the length of the body field, the other fields taken to
\* add nothing to it
SizeOf(bytes) == Get(bytes[2], "body")

\* hashlib.md5(bytes).hexdigest(), free of collisions
Md5(bytes) == <<"md5", bytes>>

\* f"overflow/{blob_id}.json"
BlobKey(blob_id) == <<"overflow", blob_id>>

Stub(bytes) ==
    ("_overflow" :> TRUE) @@ ("_blob_key" :> BlobKey(Md5(bytes)))
        @@ ("_size" :> SizeOf(bytes)) @@ ("_checksum" :> Md5(bytes))

\* NoSQLKVAdapter._check_overflow: a record larger than max_size goes to
\* object storage and a stub takes its place
CheckOverflow(bl, data) ==
    LET data_bytes == Dumps(data)
    IN IF SizeOf(data_bytes) > MaxSize
       THEN [store_data |-> Stub(data_bytes),
             blobs |-> (BlobKey(Md5(data_bytes)) :> data_bytes) @@ bl]
       ELSE [store_data |-> data, blobs |-> bl]

\* mutant of RetrieveOverflow: the checksum is not verified
RetrieveOverflowUnverified(bl, data) ==
    IF ~("_overflow" \in DOMAIN data /\ data["_overflow"])
    THEN [outcome |-> "ok", data |-> data, fetches |-> 0]
    ELSE IF data["_blob_key"] \notin DOMAIN bl \/ ~IsJson(bl[data["_blob_key"]])
         THEN [outcome |-> "raised_storage", data |-> Null, fetches |-> RetrieveAttempts]
         ELSE [outcome |-> "ok", data |-> Loads(bl[data["_blob_key"]]), fetches |-> 1]

\* the body of NoSQLKVAdapter._retrieve_overflow, run once: a stub is
\* replaced by the parsed blob; a missing blob, bytes that do not parse and a
\* checksum mismatch all leave as StorageError
RetrieveOverflowOnce(bl, data) ==
    IF ~("_overflow" \in DOMAIN data /\ data["_overflow"])
    THEN [outcome |-> "ok", data |-> data]
    ELSE IF data["_blob_key"] \notin DOMAIN bl
         THEN [outcome |-> "raised_storage", data |-> Null]
         ELSE LET blob_data == bl[data["_blob_key"]]
              IN IF ~IsJson(blob_data) \/ Md5(blob_data) # Get(data, "_checksum")
                 THEN [outcome |-> "raised_storage", data |-> Null]
                 ELSE [outcome |-> "ok", data |-> Loads(blob_data)]

\* NoSQLKVAdapter._retrieve_overflow under its decorator
\* @retry(max_attempts=3, delay=1.0, exceptions=(StorageError,)): the blobs do
\* not change between the attempts, so every invocation ends the same way.
\* fetches counts the object_storage.get calls, one per invocation on a stub
RetrieveOverflow(bl, data) ==
    LET once == RetrieveOverflowOnce(bl, data)
        result == IF once.outcome = "ok" THEN "ok" ELSE "StorageError"
        ran == Retry(RetrieveAttempts, {"StorageError"},
                     [k \in 1..RetrieveAttempts |-> result])
        stub == "_overflow" \in DOMAIN data /\ data["_overflow"]
    IN [outcome |-> once.outcome, data |-> once.data,
        fetches |-> IF stub THEN ran.calls ELSE 0]

\* [self._retrieve_overflow(r) for r in results]: one failure fails the list;
\* fetches is the number of fetches made of the blob whose retrieval raised
RetrieveAll(bl, results) ==
    LET each == [n \in 1..Len(results) |-> RetrieveOverflow(bl, results[n])]
        failed == {n \in 1..Len(results) : each[n].outcome # "ok"}
    IN IF failed # {}
       THEN [outcome |-> "raised_storage", rows |-> <<>>,
             fetches |-> each[CHOOSE n \in failed : \A m \in failed : n <= m].fetches]
       ELSE [outcome |-> "ok", rows |-> [n \in 1..Len(results) |-> each[n].data],
             fetches |-> 0]

\* MongoDBAdapter._put_raw: update_one({_pk, _rk}, {"$set": data}, upsert):
\* the fields of data are set on the stored document, its other fields stay
PutRaw(dc, id, data) ==
    LET data_copy == ("_pk" :> id) @@ ("_rk" :> id) @@ data
    IN (id :> (IF id \in DOMAIN dc THEN data_copy @@ dc[id] ELSE data_copy)) @@ dc

\* MongoDBAdapter._query_raw: find(filters), a None value matching a null or
\* missing field; cursor.limit(limit) "if limit"
FindRaw(dc, filters, limit) ==
    LET ids == Ascending({i \in DOMAIN dc :
                        \A k \in DOMAIN filters : Get(dc[i], k) = filters[k]})
        results == [n \in 1..Len(ids) |-> dc[ids[n]]]
    IN IF limit # 0 THEN Take(results, limit) ELSE results

\* NoSQLKVAdapter.put (and upsert, which calls it)
EnginePut(dc, bl, data) ==
    LET checked == CheckOverflow(bl, data)
    IN [docs |-> PutRaw(dc, data.id, checked.store_data), blobs |-> checked.blobs]

\* NoSQLKVAdapter.patch with replace = False: the stored record, resolved,
\* is updated with data and written back
EnginePatch(dc, bl, id, data) ==
    LET existing == IF id \in DOMAIN dc
                    THEN RetrieveOverflow(bl, dc[id])
                    ELSE [outcome |-> "ok", data |-> <<>>]
        merged == data @@ existing.data
        checked == CheckOverflow(bl, merged)
    IN IF existing.outcome # "ok"
       THEN [outcome |-> existing.outcome, data |-> Null, docs |-> dc, blobs |-> bl]
       ELSE [outcome |-> "ok", data |-> merged,
             docs |-> PutRaw(dc, id, checked.store_data), blobs |-> checked.blobs]

\* NoSQLKVAdapter.query: the filters go to the store, the documents it
\* returns are resolved afterwards
EngineQuery(dc, bl, query, limit) == RetrieveAll(bl, FindRaw(dc, query, limit))

\* NoSQLKVAdapter.query_page
EngineQueryPage(dc, bl, query, page_size, continuation_token) ==
    LET offset == IF continuation_token # Null THEN TokenInt(continuation_token) ELSE 0
        got == EngineQuery(dc, bl, query, page_size + 1)
        has_more == Len(got.rows) > page_size
    IN [outcome |-> got.outcome,
        rows |-> IF has_more THEN Take(got.rows, page_size) ELSE got.rows,
        next_token |-> IF has_more THEN TokenStr(offset + page_size) ELSE Null]

\* mutant of LinqSteps: skip and take are applied before the ordering, and
\* distinct before the projection
LinqStepsShuffled(results, builder) ==
    LET filtered == ApplyFilters(results, builder)
        paged == ApplyPagination(filtered, builder)
        ordered == ApplyOrdering(paged, builder)
        unique == IF builder.distinct THEN Distinct(ordered) ELSE ordered
    IN IF builder.count_only
       THEN [outcome |-> "ok", count |-> Len(paged), rows |-> <<>>]
       ELSE [outcome |-> "ok", count |-> 0, rows |-> ApplyProjection(unique, builder)]

\* NoSQLKVAdapter.query_linq after the documents are resolved: filter, count
\* short-circuit, order, paginate, project, distinct
LinqSteps(results, builder) ==
    LET filtered == ApplyFilters(results, builder)
        ordered == ApplyOrdering(filtered, builder)
        paged == ApplyPagination(ordered, builder)
        projected == ApplyProjection(paged, builder)
    IN IF builder.count_only
       THEN [outcome |-> "ok", count |-> Len(filtered), rows |-> <<>>]
       ELSE [outcome |-> "ok", count |-> 0,
             rows |-> IF builder.distinct THEN Distinct(projected) ELSE projected]

\* NoSQLKVAdapter.query_linq: every document is fetched and resolved, then
\* filtered, counted or ordered, paged, projected and made distinct in memory
NoSqlQueryLinq(dc, bl, builder) ==
    LET got == RetrieveAll(bl, FindRaw(dc, NoQuery, 0))
    IN IF got.outcome # "ok" THEN [outcome |-> got.outcome, count |-> 0, rows |-> <<>>]
       ELSE LinqSteps(got.rows, builder)

\* ------------------------------------------------------------------ cache.py
\* The registered models: the one whose table is db, and another one
ModelName == "M"

OtherModel == "Other"

\* RedisCacheEngine._make_key: prefix + model + ":" + md5 of the canonical JSON
\* of the query (the pair itself: a digest without collisions)
MakeKey(model, query) == [model |-> model, query |-> query]

\* (mutant) the lookup never finds an entry
CacheGetMiss(ch, model, query) == [found |-> FALSE, value |-> <<>>]

\* RedisCacheEngine.get: the value of the key, json.loads applied, or None.
\* The stored string is never empty, an empty list of rows included
CacheGet(ch, model, query) ==
    LET entries == {e \in ch : e.key = MakeKey(model, query)}
    IN IF entries # {}
       THEN [found |-> TRUE, value |-> (CHOOSE e \in entries : TRUE).value]
       ELSE [found |-> FALSE, value |-> <<>>]

\* RedisCacheEngine.set: setex(key, ttl, json.dumps(value))
CacheSet(ch, model, query, value) ==
    {e \in ch : e.key # MakeKey(model, query)}
        \cup {[key |-> MakeKey(model, query), value |-> value]}

\* (mutant) the keys of the model are left in place
InvalidateNothing(ch, model) == ch

\* RedisCacheEngine.invalidate(model): delete every key of prefix + model + ":*"
Invalidate(ch, model) == {e \in ch : e.key.model # model}

\* ---------------------------------------------------------------- security.py
\* A Policy of the model: its apply_to tag and its function, one of two
\* predicates over items: "never" is false of every item, "not_first" is false
\* of the items whose id is 1
PolicyTags == {"read", "write", "both"}

PolicyFuncs == {"never", "not_first"}

Policies == [apply_to : PolicyTags, func : PolicyFuncs]

RejectAll(tag) == [apply_to |-> tag, func |-> "never"]

\* policy.func(item, ctx)
PolicyFunc(policy, item) ==
    IF policy.func = "never" THEN FALSE ELSE Get(item, "id") # 1

\* mutant of CheckAccess: every item is let through
CheckAccessAllowAll(policies, item, operation) == TRUE

\* RowLevelSecurity.check_access: every policy whose tag names the operation,
\* or is "both", must hold of the item
CheckAccess(policies, item, operation) ==
    \A policy \in policies :
        (operation = policy.apply_to \/ policy.apply_to = "both") => PolicyFunc(policy, item)

\* ------------------------------------------------------- databaseFactory.py
\* The factory's flags (enable_audit is left at its default, True), the
\* model's storage kind and the tenants its callers run under; no external
\* cache (use_redis_cache at its default, False)
Configs ==
    {c \in [storage : {"sql", "nosql"}, soft_delete : BOOLEAN, audit : {TRUE},
            audit_reads : BOOLEAN, retries : BOOLEAN, enforcer : BOOLEAN, rls : BOOLEAN,
            cache : {FALSE}, meta_cache : {FALSE}, tenants : {TenantValues},
            policies : {{}, {RejectAll("write")}, {RejectAll("read")}}] :
        ~c.rls => c.policies = {}}

\* A factory with a RedisCacheEngine (enable_cache, use_redis_cache and
\* REDIS_CACHE_URL set), the model declaring caching or not, soft delete
\* enabled (delete is soft or, with hard=True, hard), the other flags at their
\* defaults; callers of one tenant
CacheConfigs ==
    [storage : {"sql", "nosql"}, soft_delete : {TRUE}, audit : {TRUE},
     audit_reads : {FALSE}, retries : {TRUE}, enforcer : {FALSE}, rls : {FALSE},
     cache : {TRUE}, meta_cache : BOOLEAN, tenants : {{"t1"}}, policies : {{}}]

\* the sets of at most MaxPolicies policies registered for the model
PolicySets == {ps \in SUBSET Policies : Cardinality(ps) <= MaxPolicies}

\* A factory with row-level security (enable_rls) and a RedisCacheEngine, the
\* model declaring caching, any policies registered; callers of one tenant
SecurityConfigs ==
    [storage : {"sql", "nosql"}, soft_delete : {FALSE}, audit : {TRUE},
     audit_reads : {FALSE}, retries : {TRUE}, enforcer : {FALSE}, rls : {TRUE},
     cache : {TRUE}, meta_cache : {TRUE}, tenants : {{"t1"}}, policies : PolicySets]

\* What a call finds in TenantContext / AuditContext: the tenant id
\* _current_tenant_id() returns, and whether it comes from a TenantContext
Contexts ==
    {x \in [tenant : TenantValues, tctx : BOOLEAN] : x.tctx => x.tenant # NoTenant}

\* _apply_soft_delete_filter
ApplySoftDeleteFilter(c, query) ==
    IF ~c.soft_delete THEN query
    ELSE SetDefault(query, "deleted_at", 0)

\* (mutant) an exception of AuditManager.record leaves _audit_safe
AuditSafeNoExcept(c, action, success, recordRaises) ==
    IF ~c.audit THEN [records |-> <<>>, raised |-> FALSE]
    ELSE [records |-> <<[action |-> action, success |-> success, failed |-> recordRaises]>>,
          raised |-> recordRaises]

\* _audit_safe: nothing without an AuditManager; else one AuditManager.record
\* call inside try / except Exception: logger.error
AuditSafe(c, action, success, recordRaises) ==
    IF ~c.audit THEN [records |-> <<>>, raised |-> FALSE]
    ELSE [records |-> <<[action |-> action, success |-> success, failed |-> recordRaises]>>,
          raised |-> FALSE]

\* _run: fn() once, or under _DEFAULT_RETRY up to MaxAttempts times.  The first
\* `fails` attempts meet a transient error; stepOk is what the storage answers
\* when it is reached
Run(c, stepOk, fails) ==
    LET allowed == IF c.retries THEN MaxAttempts ELSE 1
    IN [ok |-> stepOk /\ fails < allowed,
        attempts |-> IF stepOk /\ fails < allowed THEN fails + 1 ELSE allowed]

\* try: return self._run(_op) / except: raise / finally: self._audit_safe(...)
\* An exception leaving the finally block replaces the outcome of the try block
TryFinally(c, d, action, step, fails, recordRaises) ==
    LET ran == Run(c, step.ok, fails)
        audit == AuditSafe(c, action, ran.ok, recordRaises)
    IN [outcome |-> IF audit.raised THEN "raised_audit"
                    ELSE IF ran.ok THEN "returned" ELSE "raised_storage",
        storageOk |-> ran.ok,
        attempts |-> ran.attempts,
        audits |-> audit.records,
        db |-> IF ran.ok THEN step.db ELSE d]

\* a call that raised before its try block
Raised(d, outcome, audits) ==
    [outcome |-> outcome, storageOk |-> FALSE, attempts |-> 0, audits |-> audits, db |-> d]

\* tenant_enforcer.enforce_write, rls.enforce_write: "ok" or the exception
EnforceWrite(c, ctx, data) ==
    IF c.enforcer /\ ~ctx.tctx THEN "raised_tenancy"
    ELSE IF c.rls /\ ~CheckAccess(c.policies, data, "write") THEN "raised_rls"
    ELSE "ok"

\* the query read / read_page hand to the adapter
ReadQuery(c, query, include_deleted, ctx) ==
    LET filtered == ApplySoftDeleteFilter(c, IF ~include_deleted THEN query ELSE NoQuery)
        enforced == IF c.enforcer THEN ("tenant_id" :> ctx.tenant) @@ filtered ELSE filtered
    IN IF ctx.tenant # NoTenant THEN SetDefault(enforced, "tenant_id", ctx.tenant)
       ELSE enforced

\* getattr(meta, "cache", False) of the two models
MetaCache(c, model) == IF model = ModelName THEN c.meta_cache ELSE TRUE

\* read: the cache is looked up and filled under the query handed to the
\* adapter; a hit skips _run(_op); the audit follows either way
ReadCall(c, model, d, ch, query, limit, include_deleted, no_cache, ctx, fails, recordRaises) ==
    IF c.enforcer /\ ~ctx.tctx
    THEN [outcome |-> "raised_tenancy", rows |-> <<>>, audits |-> <<>>, cache |-> ch,
          adapter |-> 0]
    ELSE LET q == ReadQuery(c, query, include_deleted, ctx)
             use_external_cache == c.cache /\ MetaCache(c, model)
             cached == IF use_external_cache /\ ~no_cache
                       THEN CacheGet(ch, model, q)
                       ELSE [found |-> FALSE, value |-> <<>>]
             ran == Run(c, TRUE, fails)
             raw_rows == IF c.storage = "sql" THEN Select(d, q, limit, 0)
                         ELSE Query(d, q, limit)
             rows == IF cached.found THEN cached.value ELSE raw_rows
             audit == IF c.audit /\ c.audit_reads
                      THEN AuditSafe(c, "read", TRUE, recordRaises)
                      ELSE [records |-> <<>>, raised |-> FALSE]
         IN IF ~cached.found /\ ~ran.ok
            THEN [outcome |-> "raised_storage", rows |-> <<>>, audits |-> <<>>,
                  cache |-> ch, adapter |-> ran.attempts]
            ELSE [outcome |-> IF audit.raised THEN "raised_audit" ELSE "returned",
                  rows |-> IF audit.raised THEN <<>> ELSE rows,
                  audits |-> audit.records,
                  cache |-> IF ~cached.found /\ use_external_cache /\ ~no_cache
                            THEN CacheSet(ch, model, q, raw_rows) ELSE ch,
                  adapter |-> IF cached.found THEN 0 ELSE ran.attempts]

\* read_one: rows = self.read(..., limit=1, ...); "rows[0] if rows else None"
ReadOneCall(c, model, d, ch, query, include_deleted, no_cache, ctx, fails, recordRaises) ==
    LET r == ReadCall(c, model, d, ch, query, 1, include_deleted, no_cache, ctx, fails,
                      recordRaises)
    IN [r EXCEPT !.rows = Take(@, 1)]

\* _fetch_before: read_one(model, lookup, no_cache=True, include_deleted=True)
FetchBefore(c, d, entity_id, ctx, fails, recordRaises) ==
    ReadOneCall(c, ModelName, d, {}, ("id" :> entity_id), TRUE, TRUE, ctx, fails, recordRaises)

\* query_linq, lines 724-732: the object the name builder is bound to
\* after the loop "builder = builder.where(field, Operator.EQ, value)".
\* QueryBuilder.where appends to self.filters and returns self, so this
\* is also the state of the object the caller passed in
QueryLinqBuilder(c, builder, ctx) ==
    LET extra_filter == IF c.enforcer THEN ("tenant_id" :> ctx.tenant) ELSE NoQuery
    IN IF DOMAIN extra_filter # {}
       THEN Where(builder, "tenant_id", extra_filter["tenant_id"])
       ELSE builder

\* query_linq: the enforcer's filter is added to the builder with
\* where(field, EQ, value); rls.enforce_read, called without a context, adds
\* nothing to an empty filter; then _run(_op) and the audit on success
QueryLinqCall(c, d, builder, ctx, fails, recordRaises) ==
    IF c.enforcer /\ ~ctx.tctx
    THEN [outcome |-> "raised_tenancy", rows |-> <<>>, count |-> 0, audits |-> <<>>]
    ELSE LET b == QueryLinqBuilder(c, builder, ctx)
             ran == Run(c, TRUE, fails)
             result == IF c.storage = "sql" THEN SqlQueryLinq(Rows(d), b)
                       ELSE NoSqlQueryLinq(DocsOf(d), <<>>, b)
             audit == IF c.audit /\ c.audit_reads /\ ~b.count_only
                      THEN AuditSafe(c, "query_linq", TRUE, recordRaises)
                      ELSE [records |-> <<>>, raised |-> FALSE]
         IN IF ~ran.ok \/ result.outcome # "ok"
            THEN [outcome |-> "raised_storage", rows |-> <<>>, count |-> 0, audits |-> <<>>]
            ELSE [outcome |-> IF audit.raised THEN "raised_audit" ELSE "returned",
                  rows |-> IF audit.raised THEN <<>>
                           ELSE [n \in 1..Len(result.rows) |-> result.rows[n].id],
                  count |-> IF audit.raised THEN 0 ELSE result.count,
                  audits |-> audit.records]

\* create
CreateCall(c, d, id, ctx, fails, recordRaises) ==
    LET pre == EnforceWrite(c, ctx, ("id" :> id))
        data == ("id" :> id) @@ ("tenant_id" :> ctx.tenant)
        step == IF c.storage = "sql" THEN Insert(d, id, data) ELSE Put(d, id, data)
    IN IF pre # "ok" THEN Raised(d, pre, <<>>)
       ELSE IF ctx.tenant = NoTenant THEN Raised(d, "raised_no_tenant", <<>>)
       ELSE TryFinally(c, d, "create", step, fails, recordRaises)

\* upsert
UpsertCall(c, d, id, ctx, fails, recordRaises) ==
    LET pre == EnforceWrite(c, ctx, ("id" :> id))
        data == ("id" :> id) @@ ("tenant_id" :> ctx.tenant)
        step == IF c.storage = "sql" THEN SqlUpsert(d, id, data) ELSE Put(d, id, data)
    IN IF pre # "ok" THEN Raised(d, pre, <<>>)
       ELSE IF ctx.tenant = NoTenant THEN Raised(d, "raised_no_tenant", <<>>)
       ELSE TryFinally(c, d, "upsert", step, fails, recordRaises)

\* update: enforce_write puts the tenant id into the data (SHARED_SCHEMA);
\* the row is fetched before the try block
UpdateCall(c, d, entity_id, payload, ctx, fetchFails, fetchRecordRaises, fails, recordRaises) ==
    LET pre == EnforceWrite(c, ctx, payload)
        data == IF c.enforcer THEN ("tenant_id" :> ctx.tenant) @@ payload ELSE payload
        before == FetchBefore(c, d, entity_id, ctx, fetchFails, fetchRecordRaises)
        step == IF c.storage = "sql" THEN SqlUpdate(d, entity_id, data)
                ELSE Patch(d, entity_id, data)
        done == TryFinally(c, d, "update", step, fails, recordRaises)
    IN IF pre # "ok" THEN Raised(d, pre, <<>>)
       ELSE IF before.outcome # "returned" THEN Raised(d, "raised_fetch", before.audits)
       ELSE [done EXCEPT !.audits = before.audits \o done.audits]

\* delete: with soft_delete and not hard, update(model, entity_id,
\* {"deleted_at": now, ...}); else the row is fetched and removed
DeleteCall(c, d, entity_id, hard, ctx, fetchFails, fetchRecordRaises, fails, recordRaises) ==
    LET before == FetchBefore(c, d, entity_id, ctx, fetchFails, fetchRecordRaises)
        step == IF c.storage = "sql" THEN SqlDelete(d, entity_id)
                ELSE NoSqlDelete(d, entity_id)
        done == TryFinally(c, d, "delete", step, fails, recordRaises)
    IN IF c.soft_delete /\ ~hard
       THEN UpdateCall(c, d, entity_id, ("deleted_at" :> 1), ctx,
                       fetchFails, fetchRecordRaises, fails, recordRaises)
       ELSE IF before.outcome # "returned" THEN Raised(d, "raised_fetch", before.audits)
       ELSE [done EXCEPT !.audits = before.audits \o done.audits]

\* a row as an audit snapshot; None
Snapshot(d, id) == [id |-> id, row |-> d[id]]

NoSnapshot == [id |-> 0, row |-> AbsentRow]

\* before = self._fetch_before(model, meta, entity_id): rows[0] if rows else
\* None of the read, when the read returns
BeforeSnapshot(c, d, entity_id, ctx) ==
    LET got == FetchBefore(c, d, entity_id, ctx, 0, FALSE)
    IN IF got.rows = <<>> THEN NoSnapshot ELSE Snapshot(d, got.rows[1])

\* the before= and after= that update hands to _audit_safe: the row fetched
\* before the try block, and after_plain, the adapter's result (None when the
\* adapter raised)
UpdateSnapshots(c, d, entity_id, payload, ctx) ==
    LET data == IF c.enforcer THEN ("tenant_id" :> ctx.tenant) @@ payload ELSE payload
        step == IF c.storage = "sql" THEN SqlUpdate(d, entity_id, data)
                ELSE Patch(d, entity_id, data)
    IN [before |-> BeforeSnapshot(c, d, entity_id, ctx),
        after |-> IF step.ok THEN Snapshot(step.db, entity_id) ELSE NoSnapshot]

\* the before= and after= that delete hands to _audit_safe; a soft delete is
\* an update
DeleteSnapshots(c, d, entity_id, hard, ctx) ==
    IF c.soft_delete /\ ~hard
    THEN UpdateSnapshots(c, d, entity_id, ("deleted_at" :> 1), ctx)
    ELSE [before |-> BeforeSnapshot(c, d, entity_id, ctx), after |-> NoSnapshot]

\* read_page
ReadPageCall(c, d, query, page_size, continuation_token, include_deleted, ctx, fails, recordRaises) ==
    IF c.enforcer /\ ~ctx.tctx
    THEN [outcome |-> "raised_tenancy", rows |-> <<>>, next_token |-> Null, audits |-> <<>>]
    ELSE LET q == ReadQuery(c, query, include_deleted, ctx)
             ran == Run(c, TRUE, fails)
             page == IF c.storage = "sql"
                     THEN SelectPage(d, q, page_size, continuation_token)
                     ELSE QueryPage(d, q, page_size, continuation_token)
             audit == IF c.audit /\ c.audit_reads
                      THEN AuditSafe(c, "read_page", TRUE, recordRaises)
                      ELSE [records |-> <<>>, raised |-> FALSE]
         IN IF ~ran.ok
            THEN [outcome |-> "raised_storage", rows |-> <<>>, next_token |-> Null,
                  audits |-> <<>>]
            ELSE [outcome |-> IF audit.raised THEN "raised_audit" ELSE "returned",
                  rows |-> IF audit.raised THEN <<>> ELSE page.rows,
                  next_token |-> IF audit.raised THEN Null ELSE page.next_token,
                  audits |-> audit.records]

\* ---------------------------------------------- calls made on the factory
\* One caller: a call is made when the result of the last one has been dropped
Ready == c_op = "none"

\* the inputs that can make a difference under the configuration c
ContextsOf(c) == {x \in Contexts : x.tenant \in c.tenants /\ (~c.enforcer => ~x.tctx)}

FailsOf(c) == IF c.retries THEN {0, MaxAttempts - 1, MaxAttempts} ELSE {0, MaxAttempts}

ReadRecordRaisesOf(c) == IF c.audit /\ c.audit_reads THEN BOOLEAN ELSE {FALSE}

RecordRaisesOf(c) == IF c.audit THEN BOOLEAN ELSE {FALSE}

NoCacheOf(c) == IF c.cache THEN BOOLEAN ELSE {FALSE}

\* _op of a write, after success = True:
\* "if self._enable_cache and self._cache: self._cache.invalidate(model_name)"
InvalidateAfterWrite(c, ch, storageOk) ==
    IF storageOk /\ c.cache THEN Invalidate(ch, ModelName) ELSE ch

\* what identifies a read for its caller: model, query, flag and tenant
ReadId(model, query, include_deleted, ctx) ==
    [model |-> model, query |-> query, include_deleted |-> include_deleted,
     tenant |-> ctx.tenant]

\* the reads of a model that declares caching which were answered, by storage
\* or by the cache, with no_cache=false
Answered(c, model, no_cache, r, id) ==
    IF c.cache /\ MetaCache(c, model) /\ ~no_cache /\ r.outcome = "returned"
    THEN {id} ELSE {}

\* the bookkeeping of a finished write call
WriteDone(op, args, r) ==
    /\ db' = r.db
    /\ c_op' = op
    /\ c_args' = args
    /\ c_outcome' = r.outcome
    /\ c_storageOk' = r.storageOk
    /\ c_attempts' = r.attempts
    /\ c_audits' = r.audits
    /\ c_rows' = <<>>
    /\ c_token' = Null
    /\ c_prev' = Null
    /\ cache' = InvalidateAfterWrite(cfg, cache, r.storageOk)
    /\ h_fresh' = {}
    /\ c_adapter' = 0
    /\ c_cacheBefore' = cache
    /\ c_count' = 0
    /\ UNCHANGED <<cfg, raceVars, auditVars, pureVars>>

\* the bookkeeping of a finished read call
ReadDone(op, args, r, token, prev, answered) ==
    /\ c_op' = op
    /\ c_args' = args
    /\ c_outcome' = r.outcome
    /\ c_storageOk' = (r.outcome = "returned")
    /\ c_attempts' = 0
    /\ c_audits' = r.audits
    /\ c_rows' = r.rows
    /\ c_token' = token
    /\ c_prev' = prev
    /\ cache' = r.cache
    /\ h_fresh' = IF answered # {} THEN answered ELSE h_fresh
    /\ c_adapter' = r.adapter
    /\ c_cacheBefore' = cache
    /\ c_count' = 0
    /\ UNCHANGED <<cfg, db, raceVars, auditVars, pureVars>>

Create ==
    /\ Ready
    /\ \E id \in Ids, ctx \in ContextsOf(cfg),
          fails \in FailsOf(cfg), recordRaises \in RecordRaisesOf(cfg) :
          WriteDone("create", [id |-> id, data |-> ("id" :> id), tenant |-> ctx.tenant],
                    CreateCall(cfg, db, id, ctx, fails, recordRaises))

Upsert ==
    /\ Ready
    /\ \E id \in Ids, ctx \in ContextsOf(cfg),
          fails \in FailsOf(cfg), recordRaises \in RecordRaisesOf(cfg) :
          WriteDone("upsert", [id |-> id, data |-> ("id" :> id), tenant |-> ctx.tenant],
                    UpsertCall(cfg, db, id, ctx, fails, recordRaises))

\* update(model, id, data), data naming none of tenant_id / deleted_at
Update ==
    /\ Ready
    /\ \E id \in Ids, ctx \in ContextsOf(cfg),
          fetchFails \in {0, MaxAttempts}, fetchRecordRaises \in ReadRecordRaisesOf(cfg),
          fails \in FailsOf(cfg), recordRaises \in RecordRaisesOf(cfg) :
          WriteDone("update", [id |-> id, data |-> NoQuery, tenant |-> ctx.tenant],
                    UpdateCall(cfg, db, id, NoQuery, ctx, fetchFails,
                               fetchRecordRaises, fails, recordRaises))

Delete ==
    /\ Ready
    /\ \E id \in Ids, hard \in BOOLEAN, ctx \in ContextsOf(cfg),
          fetchFails \in {0, MaxAttempts}, fetchRecordRaises \in ReadRecordRaisesOf(cfg),
          fails \in FailsOf(cfg), recordRaises \in RecordRaisesOf(cfg) :
          WriteDone("delete", [id |-> id, hard |-> hard, tenant |-> ctx.tenant],
                    DeleteCall(cfg, db, id, hard, ctx, fetchFails,
                               fetchRecordRaises, fails, recordRaises))

\* the queries a caller passes: none, one id, or one tenant id
CallerQueries ==
    {NoQuery} \cup {("id" :> i) : i \in Ids} \cup {("tenant_id" :> t) : t \in TenantIds}

Read ==
    /\ Ready
    /\ \E query \in CallerQueries, include_deleted \in BOOLEAN, ctx \in ContextsOf(cfg),
          no_cache \in NoCacheOf(cfg), fails \in {0, MaxAttempts},
          recordRaises \in ReadRecordRaisesOf(cfg) :
          LET r == ReadCall(cfg, ModelName, db, cache, query, 0, include_deleted,
                            no_cache, ctx, fails, recordRaises)
              id == ReadId(ModelName, query, include_deleted, ctx)
          IN /\ Cardinality(r.cache) <= MaxCached
             /\ ReadDone("read",
                         [query |-> query, include_deleted |-> include_deleted,
                          tenant |-> ctx.tenant, no_cache |-> no_cache,
                          repeated |-> id \in h_fresh],
                         r, Null, Null, Answered(cfg, ModelName, no_cache, r, id))

ReadOne ==
    /\ Ready
    /\ \E query \in CallerQueries, include_deleted \in BOOLEAN, ctx \in ContextsOf(cfg),
          no_cache \in NoCacheOf(cfg), fails \in {0, MaxAttempts},
          recordRaises \in ReadRecordRaisesOf(cfg) :
          LET r == ReadOneCall(cfg, ModelName, db, cache, query, include_deleted,
                               no_cache, ctx, fails, recordRaises)
              id == ReadId(ModelName, query, include_deleted, ctx)
          IN /\ Cardinality(r.cache) <= MaxCached
             /\ ReadDone("read_one",
                         [query |-> query, include_deleted |-> include_deleted,
                          tenant |-> ctx.tenant, no_cache |-> no_cache,
                          repeated |-> id \in h_fresh],
                         r, Null, Null, Answered(cfg, ModelName, no_cache, r, id))

\* the table of the other model: not written here
OtherTable == [i \in Ids |-> AbsentRow]

\* read(Other): a read of the other model, which declares caching
ReadOther ==
    /\ Ready
    /\ \E ctx \in ContextsOf(cfg) :
          LET r == ReadCall(cfg, OtherModel, OtherTable, cache, NoQuery, 0, FALSE,
                            FALSE, ctx, 0, FALSE)
              id == ReadId(OtherModel, NoQuery, FALSE, ctx)
          IN /\ Cardinality(r.cache) <= MaxCached
             /\ ReadDone("read_other",
                         [query |-> NoQuery, include_deleted |-> FALSE,
                          tenant |-> ctx.tenant, no_cache |-> FALSE,
                          repeated |-> id \in h_fresh],
                         r, Null, Null, Answered(cfg, OtherModel, FALSE, r, id))

\* the TTL of an entry runs out: Redis drops the key
Expire ==
    /\ Ready
    /\ \E e \in cache : cache' = cache \ {e}
    /\ h_fresh' = {}
    /\ UNCHANGED <<cfg, db, raceVars, auditVars, pureVars, c_op, c_args, c_outcome, c_storageOk, c_attempts,
                   c_audits, c_rows, c_token, c_prev, c_adapter, c_cacheBefore, c_count>>

\* read_page without a continuation token
ReadPageFirst ==
    /\ Ready
    /\ \E query \in CallerQueries, page_size \in 1..MaxPageSize, include_deleted \in BOOLEAN,
          ctx \in ContextsOf(cfg), fails \in {0, MaxAttempts},
          recordRaises \in ReadRecordRaisesOf(cfg) :
          LET r == ReadPageCall(cfg, db, query, page_size, Null, include_deleted, ctx,
                                fails, recordRaises)
          IN ReadDone("read_page",
                      [query |-> query, include_deleted |-> include_deleted,
                       tenant |-> ctx.tenant, tctx |-> ctx.tctx, page_size |-> page_size,
                       continuation_token |-> Null],
                      r @@ [cache |-> cache, adapter |-> 1],
                      r.next_token, Null, {})

\* read_page again, same arguments and context, with the token the last call
\* returned
ReadPageNext ==
    /\ c_op = "read_page"
    /\ c_outcome = "returned"
    /\ c_token # Null
    /\ TokenInt(c_token) < MaxPages * MaxPageSize
    /\ \E fails \in {0, MaxAttempts}, recordRaises \in ReadRecordRaisesOf(cfg) :
          LET ctx == [tenant |-> c_args.tenant, tctx |-> c_args.tctx]
              r == ReadPageCall(cfg, db, c_args.query, c_args.page_size, c_token,
                                c_args.include_deleted, ctx, fails, recordRaises)
          IN ReadDone("read_page",
                      [c_args EXCEPT !.continuation_token = c_token],
                      r @@ [cache |-> cache, adapter |-> 1], r.next_token,
                      [rows |-> c_rows, next_token |-> c_token,
                       continuation_token |-> c_args.continuation_token], {})

\* the builders a caller passes to the factory: all rows, or their count
FactoryBuilders ==
    [filters : {<<>>}, order_by_fields : {<<>>}, skip_count : {0}, take_count : {0},
     select_fields : {<<>>}, distinct : {FALSE}, count_only : BOOLEAN]

\* query_linq
FactoryQueryLinq ==
    /\ Ready
    /\ \E builder \in FactoryBuilders, ctx \in ContextsOf(cfg), fails \in {0, MaxAttempts},
          recordRaises \in ReadRecordRaisesOf(cfg) :
          LET r == QueryLinqCall(cfg, db, builder, ctx, fails, recordRaises)
          IN /\ c_op' = "query_linq"
             /\ c_args' = [builder |-> builder, tenant |-> ctx.tenant]
             /\ c_outcome' = r.outcome
             /\ c_storageOk' = (r.outcome = "returned")
             /\ c_attempts' = 0
             /\ c_audits' = r.audits
             /\ c_rows' = r.rows
             /\ c_count' = r.count
             /\ c_token' = Null
             /\ c_prev' = Null
             /\ c_adapter' = 0
             /\ c_cacheBefore' = cache
             /\ UNCHANGED <<cfg, db, raceVars, auditVars, pureVars, cache, h_fresh>>

\* the caller drops the result (or the exception) of the last call
Forget ==
    /\ ~Ready
    /\ c_op' = "none"
    /\ c_args' = Null
    /\ c_outcome' = "none"
    /\ c_storageOk' = FALSE
    /\ c_attempts' = 0
    /\ c_audits' = <<>>
    /\ c_rows' = <<>>
    /\ c_token' = Null
    /\ c_prev' = Null
    /\ c_adapter' = 0
    /\ c_cacheBefore' = {}
    /\ c_count' = 0
    /\ UNCHANGED <<cfg, db, raceVars, auditVars, pureVars, cache, h_fresh>>

InitFactory ==
    /\ InitAudit
    /\ InitNoThreads
    /\ db = [i \in Ids |-> AbsentRow]
    /\ c_op = "none"
    /\ c_args = Null
    /\ c_outcome = "none"
    /\ c_storageOk = FALSE
    /\ c_attempts = 0
    /\ c_audits = <<>>
    /\ c_rows = <<>>
    /\ c_token = Null
    /\ c_prev = Null
    /\ cache = {}
    /\ h_fresh = {}
    /\ c_adapter = 0
    /\ c_cacheBefore = {}
    /\ c_count = 0

InitCrud == InitFactory /\ InitPure /\ cfg \in Configs

NextWrite ==
    \/ Create
    \/ Update
    \/ Upsert
    \/ Delete
    \/ Forget

\* The write operations of a factory, any configuration
SpecWrite == InitCrud /\ [][NextWrite]_vars

NextCrud ==
    \/ Create
    \/ Update
    \/ Upsert
    \/ Delete
    \/ Read
    \/ ReadOne
    \/ ReadPageFirst
    \/ ReadPageNext
    \/ FactoryQueryLinq
    \/ Forget

\* Reads, paging and writes of a factory, any configuration
SpecCrud == InitCrud /\ [][NextCrud]_vars

InitCache == InitFactory /\ InitPure /\ cfg \in CacheConfigs

NextCache ==
    \/ Create
    \/ Update
    \/ Upsert
    \/ Delete
    \/ Read
    \/ ReadOther
    \/ Expire
    \/ Forget

\* Reads and writes of a factory with an external cache
SpecCache == InitCache /\ [][NextCache]_vars

\* -------------------------------------- query_linq applied to a dataset
Filters ==
    {"id" :> v : v \in 0..NumIds}
        \cup {"tenant_id" :> v : v \in TenantValues}
        \cup {"deleted_at" :> v : v \in 0..1}

RECURSIVE FilterLists(_)
FilterLists(n) ==
    IF n = 0 THEN {<<>>}
    ELSE LET shorter == FilterLists(n - 1)
         IN shorter \cup {Append(fs, f) : fs \in shorter, f \in Filters}

\* builders made of where(field, EQ, value), take, skip and count
Builders ==
    [filters : FilterLists(MaxFilters), order_by_fields : {<<>>}, skip_count : 0..1,
     take_count : 0..1, select_fields : {<<>>}, distinct : {FALSE}, count_only : BOOLEAN]

QueryLinq ==
    /\ p_fn = "none"
    /\ p_fn' = "query_linq"
    /\ p_out' = [sql |-> SqlQueryLinq(Rows(p_in.data), p_in.builder),
                 nosql |-> NoSqlQueryLinq(DocsOf(p_in.data), <<>>, p_in.builder)]
    /\ UNCHANGED <<raceVars, auditVars, crudVars, p_in, docs, blobs, h_written, h_altered, h_writes>>

\* the caller drops the result and builds the next query
NextQuery ==
    /\ p_fn = "query_linq"
    /\ p_fn' = "none"
    /\ p_out' = Null
    /\ p_in' \in [data : {p_in.data}, builder : Builders]
    /\ UNCHANGED <<raceVars, auditVars, crudVars, docs, blobs, h_written, h_altered, h_writes>>

InitLinq ==
    /\ InitAudit
    /\ InitNoThreads
    /\ InitNoFactory
    /\ p_fn = "none"
    /\ p_in \in [data : Tables, builder : Builders]
    /\ p_out = Null
    /\ docs = <<>>
    /\ blobs = <<>>
    /\ h_written = <<>>
    /\ h_altered = {}
    /\ h_writes = 0

NextLinq ==
    \/ QueryLinq
    \/ NextQuery

\* Both query_linq pipelines applied to every dataset and EQ builder
SpecLinq == InitLinq /\ [][NextLinq]_vars

\* ------------------------------------------- calls made on the engine
\* a body of exactly max_size bytes stays in the document, a longer one
\* overflows
Bodies == {MaxSize, MaxSize + 1}

Keys == 1..NumKeys

Records == [id : Keys, tenant_id : TenantIds, body : Bodies]

Patches == {"body" :> b : b \in Bodies} \cup {"tenant_id" :> t : t \in TenantIds}

EngineQueries == {NoQuery} \cup {"id" :> i : i \in Keys} \cup {"tenant_id" :> t : t \in TenantValues}

EngineReady == p_fn = "none"

\* put(model, data) or upsert(model, data)
KvPut ==
    /\ EngineReady
    /\ \E data \in Records, op \in {"put", "upsert"} :
        LET r == EnginePut(docs, blobs, data)
        IN /\ h_writes < MaxWrites
           /\ h_writes' = h_writes + 1
           /\ p_fn' = op
           /\ p_in' = data
           /\ p_out' = [outcome |-> "ok"]
           /\ docs' = r.docs
           /\ blobs' = r.blobs
           /\ h_written' = (data.id :> data) @@ h_written
           /\ h_altered' = h_altered \ {BlobKey(Md5(Dumps(data)))}
    /\ UNCHANGED <<raceVars, auditVars, crudVars>>

\* patch(model, entity_id, data)
KvPatch ==
    /\ EngineReady
    /\ \E id \in Keys, data \in Patches :
        LET r == EnginePatch(docs, blobs, id, data)
        IN /\ h_writes < MaxWrites
           /\ h_writes' = h_writes + 1
           /\ p_fn' = "patch"
           /\ p_in' = [id |-> id, data |-> data]
           /\ p_out' = [outcome |-> r.outcome]
           /\ docs' = r.docs
           /\ blobs' = r.blobs
           /\ h_written' = IF r.outcome = "ok" THEN (id :> r.data) @@ h_written ELSE h_written
           /\ h_altered' = IF r.outcome = "ok"
                           THEN h_altered \ {BlobKey(Md5(Dumps(r.data)))}
                           ELSE h_altered
    /\ UNCHANGED <<raceVars, auditVars, crudVars>>

\* query(model, query)
KvQuery ==
    /\ EngineReady
    /\ \E query \in EngineQueries :
        /\ p_fn' = "query"
        /\ p_in' = query
        /\ p_out' = EngineQuery(docs, blobs, query, 0)
    /\ UNCHANGED <<raceVars, auditVars, crudVars, docs, blobs, h_written, h_altered, h_writes>>

\* DatabaseFactory.read of a model kept in the engine: _run(_op) around
\* query(model_type, query); under _DEFAULT_RETRY an attempt that raises is
\* made again, and each attempt fetches the blob anew.  read(model): no query
RunQuery ==
    /\ EngineReady
    /\ \E query \in {NoQuery}, retries \in BOOLEAN :
        LET got == EngineQuery(docs, blobs, query, 0)
            ran == Run([retries |-> retries], got.outcome = "ok", 0)
        IN /\ p_fn' = "read"
           /\ p_in' = query
           /\ p_out' = [outcome |-> got.outcome, rows |-> got.rows,
                        fetches |-> ran.attempts * got.fetches]
    /\ UNCHANGED <<raceVars, auditVars, crudVars, docs, blobs, h_written, h_altered, h_writes>>

\* query_page(model, query, page_size), a page that holds every record
KvQueryPage ==
    /\ EngineReady
    /\ \E query \in EngineQueries :
        /\ p_fn' = "query_page"
        /\ p_in' = query
        /\ p_out' = EngineQueryPage(docs, blobs, query, NumKeys, Null)
    /\ UNCHANGED <<raceVars, auditVars, crudVars, docs, blobs, h_written, h_altered, h_writes>>

\* the builder of one where(k, EQ, v) per item of a query
RECURSIVE BuilderOf(_)
BuilderOf(query) ==
    IF DOMAIN query = {}
    THEN [filters |-> <<>>, order_by_fields |-> <<>>, skip_count |-> 0, take_count |-> 0,
          select_fields |-> <<>>, distinct |-> FALSE, count_only |-> FALSE]
    ELSE LET k == CHOOSE x \in DOMAIN query : TRUE
         IN Where(BuilderOf([y \in DOMAIN query \ {k} |-> query[y]]), k, query[k])

\* query_linq(model, builder)
KvQueryLinq ==
    /\ EngineReady
    /\ \E query \in EngineQueries :
        /\ p_fn' = "query_linq"
        /\ p_in' = query
        /\ p_out' = NoSqlQueryLinq(docs, blobs, BuilderOf(query))
    /\ UNCHANGED <<raceVars, auditVars, crudVars, docs, blobs, h_written, h_altered, h_writes>>

\* Someone rewrites the bytes of a stored blob: bytes that do not parse, or
\* the JSON of the record with one more byte in its body
AlterBlob ==
    /\ EngineReady
    /\ Cardinality(h_altered) < MaxAltered
    /\ \E k \in DOMAIN blobs \ h_altered :
        \E bytes \in {<<"garbage">>, Dumps([Loads(blobs[k]) EXCEPT !["body"] = @ + 1])} :
            /\ blobs' = [blobs EXCEPT ![k] = bytes]
            /\ h_altered' = h_altered \cup {k}
    /\ UNCHANGED <<raceVars, auditVars, crudVars, p_fn, p_in, p_out, docs, h_written, h_writes>>

\* the caller drops the result of the last call
EngineForget ==
    /\ p_fn # "none"
    /\ p_fn' = "none"
    /\ p_in' = Null
    /\ p_out' = Null
    /\ UNCHANGED <<raceVars, auditVars, crudVars, docs, blobs, h_written, h_altered, h_writes>>

InitEngine == InitAudit /\ InitNoThreads /\ InitNoFactory /\ InitPure

NextEngine ==
    \/ KvPut
    \/ KvPatch
    \/ KvQuery
    \/ RunQuery
    \/ KvQueryPage
    \/ KvQueryLinq
    \/ AlterBlob
    \/ EngineForget

\* Writes and reads of the generic engine, and edits of its blobs
SpecEngine == InitEngine /\ [][NextEngine]_vars

InitSecurity == InitFactory /\ InitPure /\ cfg \in SecurityConfigs

NextSecurity ==
    \/ Create
    \/ Update
    \/ Upsert
    \/ Read
    \/ Forget

\* Writes and reads of a factory with row-level security and a cache
SpecSecurity == InitSecurity /\ [][NextSecurity]_vars

\* --------------------------------------- security.py: FieldEncryption
\* A field value: None, or a string.  A string is plain text or the base64
\* text of nonce + ciphertext, and starts with "encrypted:" (marker) or not.
\* AES-GCM is authenticated: a ciphertext decrypts under its own key only,
\* and only while it is intact.
NoneValue ==
    [kind |-> "none", marker |-> FALSE, key |-> 0, nonce |-> 0, intact |-> TRUE, text |-> ""]

PlainStr(t) ==
    [kind |-> "plain", marker |-> FALSE, key |-> 0, nonce |-> 0, intact |-> TRUE, text |-> t]

EncryptionKeys == 1..NumKeysAes

Nonces == 1..NumNonces

\* A value that is not a string: a number, a boolean, a list or an object,
\* text being its Python literal
NonStr(kind, t) ==
    [kind |-> kind, marker |-> FALSE, key |-> 0, nonce |-> 0, intact |-> TRUE, text |-> t]

\* json.dumps(value) of a value that is not a string
JsonDumps(value) ==
    CASE value.kind = "bool" -> (IF value.text = "True" THEN "true" ELSE "false")
      [] OTHER -> value.text

\* json.loads(plaintext): the value a JSON document denotes;
\* json.JSONDecodeError for any other text
JsonLoads(plaintext) ==
    CASE plaintext = "5" -> [ok |-> TRUE, value |-> NonStr("number", "5")]
      [] plaintext = "true" -> [ok |-> TRUE, value |-> NonStr("bool", "True")]
      [] plaintext = "false" -> [ok |-> TRUE, value |-> NonStr("bool", "False")]
      [] plaintext = "[1]" -> [ok |-> TRUE, value |-> NonStr("list", "[1]")]
      [] plaintext = "{}" -> [ok |-> TRUE, value |-> NonStr("object", "{}")]
      [] plaintext = "null" -> [ok |-> TRUE, value |-> NoneValue]
      [] OTHER -> [ok |-> FALSE, value |-> NoneValue]

\* FieldEncryption._encrypt_value:
\* data = json.dumps(value) if not isinstance(value, str) else value
EncryptValue(key, nonce, value) ==
    IF value.kind = "none" THEN PlainStr("")
    ELSE [kind |-> "cipher", marker |-> TRUE, key |-> key, nonce |-> nonce,
          intact |-> TRUE,
          text |-> IF value.kind = "plain" THEN value.text ELSE JsonDumps(value)]

\* encrypted_data[10:]
StripMarker(value) == [value EXCEPT !.marker = FALSE]

\* FieldEncryption._decrypt_value: the name encrypted_data is rebound to the
\* text after the prefix before anything can fail, and "except Exception"
\* returns encrypted_data
DecryptValue(key, encrypted_data) ==
    IF encrypted_data.kind \notin {"plain", "cipher"} \/ ~encrypted_data.marker
    THEN encrypted_data
    ELSE IF encrypted_data.kind = "cipher" /\ encrypted_data.intact /\ encrypted_data.key = key
         THEN LET plaintext == encrypted_data.text
                  parsed == JsonLoads(plaintext)
              IN IF parsed.ok THEN parsed.value ELSE PlainStr(plaintext)
         ELSE StripMarker(encrypted_data)

\* FieldEncryption.encrypt_fields
EncryptFields(key, nonce, data, fields) ==
    [f \in DOMAIN data |->
        IF f \in fields /\ data[f].kind # "none"
        THEN EncryptValue(key, nonce, data[f]) ELSE data[f]]

\* FieldEncryption.decrypt_fields
DecryptFields(key, data, fields) ==
    [f \in DOMAIN data |->
        IF f \in fields /\ data[f].kind # "none"
        THEN DecryptValue(key, data[f]) ELSE data[f]]

\* ------------------------------------------------ registry.py, types.py
\* the attributes of ModelMeta
MetaFields ==
    {"storage", "table", "collection", "pk_field", "rk_field", "provider", "cache", "cache_ttl"}

\* ModelRegistry.get: the ModelMeta built from the model's __polydb__ dict
RegistryGet(raw_meta) ==
    [k \in MetaFields |->
        IF k \in DOMAIN raw_meta THEN raw_meta[k]
        ELSE IF k = "storage" THEN "sql"
        ELSE IF k = "cache" THEN "false"
        ELSE "none"]

\* getattr(meta, "encrypted_fields", [])
EncryptedFieldsOf(meta) ==
    IF "encrypted_fields" \in DOMAIN meta THEN meta["encrypted_fields"] ELSE {}

\* create / upsert / update up to the adapter call: the data handed to
\* insert / put / upsert / update / patch
AdapterData(op, encryption, key, nonce, raw_meta, data) ==
    LET meta == RegistryGet(raw_meta)
        encrypted_fields == EncryptedFieldsOf(meta)
        fields == IF op = "update" THEN encrypted_fields \cap DOMAIN data
                  ELSE encrypted_fields
    IN IF encryption /\ encrypted_fields # {}
       THEN EncryptFields(key, nonce, data, fields)
       ELSE data

\* ------------------------------------------- encryption applied to inputs
\* __polydb__ of a model, declaring sensitive fields or not
RawMetas ==
    {("storage" :> "sql") @@ ("table" :> "t"),
     ("storage" :> "sql") @@ ("table" :> "t") @@ ("encrypted_fields" :> {"secret"})}

PlainRecords ==
    [secret : {NoneValue, PlainStr("s1")}, note : {PlainStr("n")}]
        \cup [note : {PlainStr("n")}]

\* what a stored field may hold: ciphertext of any key, intact or not, a
\* plain string, with the marker in front or not, or null
StoredValues ==
    {NoneValue}
        \cup [kind : {"plain"}, marker : BOOLEAN, key : {0}, nonce : {0},
              intact : {TRUE}, text : {"s1"}]
        \cup [kind : {"cipher"}, marker : {TRUE}, key : EncryptionKeys, nonce : Nonces,
              intact : BOOLEAN, text : {"s1"}]

WriteInputs ==
    [op : {"create", "update", "upsert"}, encryption : BOOLEAN, key : EncryptionKeys,
     nonce : Nonces, raw_meta : RawMetas, data : PlainRecords]

DecryptInputs ==
    [op : {"decrypt_fields"}, key : EncryptionKeys,
     data : [secret : StoredValues, note : {PlainStr("n")}],
     fields : {{"secret"}, {"secret", "note"}}]

\* create, update or upsert reaches its adapter call
EncryptForWrite ==
    /\ p_fn = "none"
    /\ p_in.op \in {"create", "update", "upsert"}
    /\ p_fn' = p_in.op
    /\ p_out' = AdapterData(p_in.op, p_in.encryption, p_in.key, p_in.nonce,
                            p_in.raw_meta, p_in.data)
    /\ UNCHANGED <<raceVars, auditVars, crudVars, p_in, docs, blobs, h_written, h_altered, h_writes>>

\* decrypt_fields(data, fields)
DecryptStored ==
    /\ p_fn = "none"
    /\ p_in.op = "decrypt_fields"
    /\ p_fn' = "decrypt_fields"
    /\ p_out' = DecryptFields(p_in.key, p_in.data, p_in.fields)
    /\ UNCHANGED <<raceVars, auditVars, crudVars, p_in, docs, blobs, h_written, h_altered, h_writes>>

\* the next call
NextCryptoInput ==
    /\ p_fn # "none"
    /\ p_fn' = "none"
    /\ p_out' = Null
    /\ p_in' \in WriteInputs \cup DecryptInputs
    /\ UNCHANGED <<raceVars, auditVars, crudVars, docs, blobs, h_written, h_altered, h_writes>>

InitCrypto ==
    /\ InitAudit
    /\ InitNoThreads
    /\ InitNoFactory
    /\ p_fn = "none"
    /\ p_in \in WriteInputs \cup DecryptInputs
    /\ p_out = Null
    /\ docs = <<>>
    /\ blobs = <<>>
    /\ h_written = <<>>
    /\ h_altered = {}
    /\ h_writes = 0

NextCrypto ==
    \/ EncryptForWrite
    \/ DecryptStored
    \/ NextCryptoInput

\* Field encryption on the write path and decrypt_fields, on every input
SpecCrypto == InitCrypto /\ [][NextCrypto]_vars

\* ------------------------- encrypt_fields followed by decrypt_fields
\* strings of several contents, a number, booleans, a list and an object
RoundTripValues ==
    {PlainStr(t) : t \in {"s1", "", "5", "true", "null", "[1]", "{}"}}
        \cup {NonStr("number", "5"), NonStr("bool", "True"), NonStr("bool", "False"),
              NonStr("list", "[1]"), NonStr("object", "{}")}

RoundTripInputs ==
    [key : EncryptionKeys, nonce : Nonces,
     data : [secret : RoundTripValues, note : RoundTripValues],
     fields : {{}, {"secret"}, {"secret", "note"}, {"secret", "other"}}]

\* encrypt_fields(data, fields)
EncryptRecord ==
    /\ p_fn = "none"
    /\ p_fn' = "encrypt_fields"
    /\ p_out' = [encrypted |-> EncryptFields(p_in.key, p_in.nonce, p_in.data, p_in.fields),
                 decrypted |-> Null]
    /\ UNCHANGED <<raceVars, auditVars, crudVars, p_in, docs, blobs, h_written, h_altered, h_writes>>

\* decrypt_fields(encrypted, fields) with the same key
DecryptRecord ==
    /\ p_fn = "encrypt_fields"
    /\ p_fn' = "decrypt_fields"
    /\ p_out' = [p_out EXCEPT
                    !.decrypted = DecryptFields(p_in.key, p_out.encrypted, p_in.fields)]
    /\ UNCHANGED <<raceVars, auditVars, crudVars, p_in, docs, blobs, h_written, h_altered, h_writes>>

\* the caller drops both records
ForgetRoundTrip ==
    /\ p_fn = "decrypt_fields"
    /\ p_fn' = "none"
    /\ p_out' = Null
    /\ UNCHANGED <<raceVars, auditVars, crudVars, p_in, docs, blobs, h_written, h_altered, h_writes>>

InitRoundTrip ==
    /\ InitAudit
    /\ InitNoThreads
    /\ InitNoFactory
    /\ p_fn = "none"
    /\ p_in \in RoundTripInputs
    /\ p_out = Null
    /\ docs = <<>>
    /\ blobs = <<>>
    /\ h_written = <<>>
    /\ h_altered = {}
    /\ h_writes = 0

NextRoundTrip ==
    \/ EncryptRecord
    \/ DecryptRecord
    \/ ForgetRoundTrip

\* Records of non-null values encrypted and decrypted with one key
SpecRoundTrip == InitRoundTrip /\ [][NextRoundTrip]_vars

\* ------------------------------------------- retry applied to functions
\* what one invocation of a wrapped function does
Results == {"ok", "StorageError", "ValueError"}

ExceptionTuples == {{"StorageError"}, {"CloudDBError"}, {"Exception"}}

RetryInputs ==
    UNION {[op : {"retry"}, max_attempts : {n}, exceptions : ExceptionTuples,
            results : [1..n -> Results]] : n \in 1..MaxTries}

RunInputs ==
    [op : {"_run"}, retries : BOOLEAN, stepOk : BOOLEAN, fails : 0..MaxAttempts]

\* a function wrapped by retry is called
CallRetry ==
    /\ p_fn = "none"
    /\ p_in.op = "retry"
    /\ p_fn' = "retry"
    /\ p_out' = Retry(p_in.max_attempts, p_in.exceptions, p_in.results)
    /\ UNCHANGED <<raceVars, auditVars, crudVars, p_in, docs, blobs, h_written, h_altered, h_writes>>

\* DatabaseFactory._run(fn)
CallRun ==
    /\ p_fn = "none"
    /\ p_in.op = "_run"
    /\ p_fn' = "_run"
    /\ p_out' = Run([retries |-> p_in.retries], p_in.stepOk, p_in.fails)
    /\ UNCHANGED <<raceVars, auditVars, crudVars, p_in, docs, blobs, h_written, h_altered, h_writes>>

\* the next call
NextRetryInput ==
    /\ p_fn # "none"
    /\ p_fn' = "none"
    /\ p_out' = Null
    /\ p_in' \in RetryInputs \cup RunInputs
    /\ UNCHANGED <<raceVars, auditVars, crudVars, docs, blobs, h_written, h_altered, h_writes>>

InitRetry ==
    /\ InitAudit
    /\ InitNoThreads
    /\ InitNoFactory
    /\ p_fn = "none"
    /\ p_in \in RetryInputs \cup RunInputs
    /\ p_out = Null
    /\ docs = <<>>
    /\ blobs = <<>>
    /\ h_written = <<>>
    /\ h_altered = {}
    /\ h_writes = 0

NextRetry ==
    \/ CallRetry
    \/ CallRun
    \/ NextRetryInput

\* The retry decorator and _run on every sequence of outcomes
SpecRetry == InitRetry /\ [][NextRetry]_vars

\* ------------------------- utils.py and the statements of PostgreSQLAdapter
\* An identifier is the sequence of its characters, each named by its class:
\* a letter, a digit, the underscore, the hyphen, another printable character
\* (";") or the newline.
ColumnChars == {"letter", "digit", "underscore"}

TableChars == ColumnChars \cup {"hyphen"}

\* re.match(r'^[...]+$', name): "+" needs one character, and "$" matches at
\* the end of the string and also just before a newline that ends it
ReMatch(name, chars) ==
    LET n == Len(name)
        core == IF n > 0 /\ name[n] = "newline" THEN SubSeq(name, 1, n - 1) ELSE name
    IN Len(core) > 0 /\ \A i \in 1..Len(core) : core[i] \in chars

\* validate_table_name does not raise
ValidTableName(table) == ReMatch(table, TableChars)

\* validate_column_name does not raise
ValidColumnName(column) == ReMatch(column, ColumnChars)

GoodName == <<"letter", "underscore", "digit">>

\* the identifier an argument holds in its place `role`; the other places
\* hold a good name
ColumnAt(in, role) == IF in.role = role THEN in.column ELSE GoodName

\* what one statement does once it is built: cursor.execute(sql, params)
\* with these identifiers in the text; a statement the database turns down
\* raises, and "except Exception" makes it a DatabaseError
Execute(in, idents) ==
    [result |-> IF in.accepts THEN "ok" ELSE "DatabaseError",
     executed |-> TRUE, idents |-> idents]

\* an exception raised before cursor.execute
RaisedBefore(error) == [result |-> error, executed |-> FALSE, idents |-> {}]

\* PostgreSQLAdapter.insert and upsert, run once: table and data keys are
\* validated before the try block
InsertOnce(in) ==
    IF ~ValidTableName(in.table) \/ ~ValidColumnName(ColumnAt(in, "data"))
    THEN RaisedBefore("ValidationError")
    ELSE Execute(in, {in.table, ColumnAt(in, "data")})

\* PostgreSQLAdapter.select, run once: the keys of query are validated inside
\* the try block, whose "except Exception" raises DatabaseError
SelectOnce(in) ==
    IF ~ValidTableName(in.table) THEN RaisedBefore("ValidationError")
    ELSE IF ~ValidColumnName(ColumnAt(in, "lookup")) THEN RaisedBefore("DatabaseError")
    ELSE Execute(in, {in.table, ColumnAt(in, "lookup")})

\* PostgreSQLAdapter.update, run once: data keys before the try block, the
\* keys of entity_id inside it
UpdateOnce(in) ==
    IF ~ValidTableName(in.table) \/ ~ValidColumnName(ColumnAt(in, "data"))
    THEN RaisedBefore("ValidationError")
    ELSE IF ~ValidColumnName(ColumnAt(in, "lookup")) THEN RaisedBefore("DatabaseError")
    ELSE Execute(in, {in.table, ColumnAt(in, "data"), ColumnAt(in, "lookup")})

\* PostgreSQLAdapter.delete, run once
DeleteOnce(in) ==
    IF ~ValidTableName(in.table) THEN RaisedBefore("ValidationError")
    ELSE IF ~ValidColumnName(ColumnAt(in, "lookup")) THEN RaisedBefore("DatabaseError")
    ELSE Execute(in, {in.table, ColumnAt(in, "lookup")})

\* PostgreSQLAdapter.query_linq, run once: select fields (unless count_only),
\* group-by and order-by fields are validated inside the try block; the
\* filter fields go through to_sql_where, which validates nothing
QueryLinqOnce(in) ==
    IF ~ValidTableName(in.table) THEN RaisedBefore("ValidationError")
    ELSE IF \/ (~in.count_only /\ ~ValidColumnName(ColumnAt(in, "select")))
            \/ ~ValidColumnName(ColumnAt(in, "group_by"))
            \/ ~ValidColumnName(ColumnAt(in, "order_by"))
    THEN RaisedBefore("DatabaseError")
    ELSE Execute(in, {in.table, ColumnAt(in, "filter"), ColumnAt(in, "group_by"),
                      ColumnAt(in, "order_by")}
                        \cup (IF in.count_only THEN {} ELSE {ColumnAt(in, "select")}))

\* a method under @retry(max_attempts=3, delay=1.0, exceptions=(DatabaseError,)),
\* called directly or by DatabaseFactory._run; every invocation ends as `once`
\* does.  invocations counts the runs of the method body, executions the
\* cursor.execute calls
SqlCall(in, once) ==
    LET ran == Retry(SqlAttempts, {"DatabaseError"}, [k \in 1..SqlAttempts |-> once.result])
        run == Run([retries |-> in.retries], once.result = "ok", 0)
    IN [outcome |-> once.result,
        invocations |-> run.attempts * ran.calls,
        executions |-> IF once.executed THEN run.attempts * ran.calls ELSE 0,
        idents |-> once.idents]

\* ---------------------------------------- statements built from identifiers
Idents ==
    {GoodName, <<"letter", "hyphen", "letter">>, <<"letter", "semicolon">>,
     <<"letter", "newline">>}

RolesOf(op) ==
    IF op \in {"insert", "upsert"} THEN {"data"}
    ELSE IF op \in {"select", "delete"} THEN {"lookup"}
    ELSE IF op = "update" THEN {"data", "lookup"}
    ELSE {"filter", "select", "group_by", "order_by"}

SqlOps == {"insert", "select", "update", "upsert", "delete", "query_linq"}

\* retries: the call is made by DatabaseFactory._run with enable_retries
SqlInputs ==
    {in \in [op : SqlOps, table : Idents, role : RolesOf("update") \cup RolesOf("query_linq"),
             column : Idents, count_only : BOOLEAN, accepts : BOOLEAN, retries : BOOLEAN] :
        /\ in.role \in RolesOf(in.op)
        /\ in.count_only => in.op = "query_linq"}

SqlReady(op) == p_fn = "none" /\ p_in.op = op

SqlDone(op, once) ==
    /\ p_fn' = op
    /\ p_out' = SqlCall(p_in, once)
    /\ UNCHANGED <<raceVars, auditVars, crudVars, p_in, docs, blobs, h_written, h_altered, h_writes>>

CallInsert == SqlReady("insert") /\ SqlDone("insert", InsertOnce(p_in))

CallUpsert == SqlReady("upsert") /\ SqlDone("upsert", InsertOnce(p_in))

CallSelect == SqlReady("select") /\ SqlDone("select", SelectOnce(p_in))

CallUpdate == SqlReady("update") /\ SqlDone("update", UpdateOnce(p_in))

CallDelete == SqlReady("delete") /\ SqlDone("delete", DeleteOnce(p_in))

CallQueryLinq == SqlReady("query_linq") /\ SqlDone("query_linq", QueryLinqOnce(p_in))

\* the next call
NextSqlInput ==
    /\ p_fn # "none"
    /\ p_fn' = "none"
    /\ p_out' = Null
    /\ p_in' \in SqlInputs
    /\ UNCHANGED <<raceVars, auditVars, crudVars, docs, blobs, h_written, h_altered, h_writes>>

InitSql ==
    /\ InitAudit
    /\ InitNoThreads
    /\ InitNoFactory
    /\ p_fn = "none"
    /\ p_in \in SqlInputs
    /\ p_out = Null
    /\ docs = <<>>
    /\ blobs = <<>>
    /\ h_written = <<>>
    /\ h_altered = {}
    /\ h_writes = 0

NextSql ==
    \/ CallInsert
    \/ CallUpsert
    \/ CallSelect
    \/ CallUpdate
    \/ CallDelete
    \/ CallQueryLinq
    \/ NextSqlInput

\* The relational adapter's methods on every choice of identifiers
SpecSql == InitSql /\ [][NextSql]_vars

\* ------------------------------- query_linq applied to rows to be sorted
\* the strings a sort field holds, by rank
Ranks == {1, 2}

\* the n-th record of a dataset: field a may be missing
ItemsAt(n) == [id : {n}, a : Ranks, b : Ranks] \cup [id : {n}, b : Ranks]

Datasets ==
    UNION {{data \in [1..n -> UNION {ItemsAt(k) : k \in 1..n}] :
                \A k \in 1..n : data[k] \in ItemsAt(k)} : n \in 0..MaxRows}

OrderKeys == [field : {"a", "b"}, desc : BOOLEAN]

\* order_by(...) called up to twice, on different fields
OrderLists ==
    {<<>>} \cup {<<k>> : k \in OrderKeys}
        \cup {ks \in {<<k1, k2>> : k1 \in OrderKeys, k2 \in OrderKeys} :
                    ks[1].field # ks[2].field}

OrderInputs ==
    [op : {"_apply_ordering"}, data : Datasets,
     builder : [filters : {<<>>}, order_by_fields : OrderLists, skip_count : {0},
                take_count : {0}, select_fields : {<<>>}, distinct : {FALSE},
                count_only : {FALSE}]]

CountInputs ==
    [op : {"count"}, data : Datasets,
     builder : [filters : {<<>>, <<"a" :> 1>>, <<"b" :> 1>>},
                order_by_fields : {<<>>, <<[field |-> "a", desc |-> FALSE]>>},
                skip_count : {0, 1}, take_count : {0, 1},
                select_fields : {<<>>, <<"b">>}, distinct : {FALSE}, count_only : {TRUE}]]

QueryInputs ==
    [op : {"query_linq"}, data : Datasets,
     builder : [filters : {<<>>, <<"b" :> 1>>},
                order_by_fields : {<<>>, <<[field |-> "a", desc |-> FALSE]>>,
                                   <<[field |-> "b", desc |-> TRUE]>>,
                                   <<[field |-> "a", desc |-> TRUE], [field |-> "b", desc |-> FALSE]>>,
                                   <<[field |-> "b", desc |-> TRUE], [field |-> "a", desc |-> FALSE]>>},
                skip_count : {0, 1}, take_count : {0, 1},
                select_fields : {<<>>, <<"b">>}, distinct : BOOLEAN, count_only : {FALSE}]]

RowsInputs == OrderInputs \cup CountInputs \cup QueryInputs

\* _apply_ordering(results, builder), and ORDER BY over the same rows
OrderRows ==
    /\ p_fn = "none"
    /\ p_in.op = "_apply_ordering"
    /\ p_fn' = "_apply_ordering"
    /\ p_out' = [mem |-> ApplyOrdering(p_in.data, p_in.builder),
                 sql |-> SqlOrderBy(p_in.data, p_in.builder.order_by_fields)]
    /\ UNCHANGED <<raceVars, auditVars, crudVars, p_in, docs, blobs, h_written, h_altered, h_writes>>

\* query_linq with builder.count(), on both adapters
CountRows ==
    /\ p_fn = "none"
    /\ p_in.op = "count"
    /\ p_fn' = "count"
    /\ p_out' = [sql |-> SqlQueryLinq(p_in.data, p_in.builder),
                 nosql |-> NoSqlQueryLinq(p_in.data, <<>>, p_in.builder)]
    /\ UNCHANGED <<raceVars, auditVars, crudVars, p_in, docs, blobs, h_written, h_altered, h_writes>>

\* NoSQLKVAdapter.query_linq(model, builder)
QueryRows ==
    /\ p_fn = "none"
    /\ p_in.op = "query_linq"
    /\ p_fn' = "query_linq"
    /\ p_out' = NoSqlQueryLinq(p_in.data, <<>>, p_in.builder)
    /\ UNCHANGED <<raceVars, auditVars, crudVars, p_in, docs, blobs, h_written, h_altered, h_writes>>

\* the caller drops the result; the same call can be made again
ForgetRows ==
    /\ p_fn # "none"
    /\ p_fn' = "none"
    /\ p_out' = Null
    /\ UNCHANGED <<raceVars, auditVars, crudVars, p_in, docs, blobs, h_written, h_altered, h_writes>>

InitRows ==
    /\ InitAudit
    /\ InitNoThreads
    /\ InitNoFactory
    /\ p_fn = "none"
    /\ p_in \in RowsInputs
    /\ p_out = Null
    /\ docs = <<>>
    /\ blobs = <<>>
    /\ h_written = <<>>
    /\ h_altered = {}
    /\ h_writes = 0

NextRows ==
    \/ OrderRows
    \/ CountRows
    \/ QueryRows
    \/ ForgetRows

\* Ordering, counting and the whole in-memory pipeline on every dataset
SpecRows == InitRows /\ [][NextRows]_vars

\* ------------------------------ one QueryBuilder object, executed again
\* factories of either storage kind, with and without a TenantEnforcer
BuilderConfigs ==
    {c \in Configs : /\ c.policies = {} /\ ~c.rls /\ ~c.soft_delete
                     /\ ~c.audit_reads /\ c.retries}

\* the builders a caller makes: at most one where(field, EQ, value), or count
CallerBuilders ==
    [filters : FilterLists(1), order_by_fields : {<<>>}, skip_count : {0},
     take_count : {0}, select_fields : {<<>>}, distinct : {FALSE}, count_only : BOOLEAN]

\* factory.query_linq(model, builder) with the builder object the caller
\* holds: p_out.builder is that object, p_out.before its state when the
\* call began
ExecuteBuilder ==
    /\ p_out.calls < MaxCalls
    /\ \E ctx \in ContextsOf(p_in.cfg) :
          LET r == QueryLinqCall(p_in.cfg, p_in.data, p_out.builder, ctx, 0, FALSE)
          IN /\ p_fn' = "execute_builder"
             /\ p_out' = [builder |-> IF r.outcome = "raised_tenancy" THEN p_out.builder
                                      ELSE QueryLinqBuilder(p_in.cfg, p_out.builder, ctx),
                          before |-> p_out.builder,
                          calls |-> p_out.calls + 1,
                          ctx |-> ctx,
                          outcome |-> r.outcome,
                          rows |-> r.rows,
                          count |-> r.count]
    /\ UNCHANGED <<raceVars, auditVars, crudVars, p_in, docs, blobs, h_written, h_altered, h_writes>>

InitBuilder ==
    /\ InitAudit
    /\ InitNoThreads
    /\ InitNoFactory
    /\ p_fn = "none"
    /\ p_in \in [cfg : BuilderConfigs, data : Tables, builder : CallerBuilders]
    /\ p_out = [builder |-> p_in.builder, before |-> p_in.builder, calls |-> 0,
                ctx |-> [tenant |-> NoTenant, tctx |-> FALSE], outcome |-> "none",
                rows |-> <<>>, count |-> 0]
    /\ docs = <<>>
    /\ blobs = <<>>
    /\ h_written = <<>>
    /\ h_altered = {}
    /\ h_writes = 0

NextBuilder ==
    ExecuteBuilder

\* One caller executing the builder it holds up to MaxCalls times, each
\* time under any tenant context
SpecBuilder == InitBuilder /\ [][NextBuilder]_vars

\* ------------------------- cached reads of one model with and without limit
\* the table as some earlier writes left it; it is not written any more
InitStaticTable ==
    /\ InitAudit
    /\ InitNoThreads
    /\ InitPure
    /\ cfg \in {c \in CacheConfigs : c.meta_cache}
    /\ db \in Tables
    /\ c_op = "none"
    /\ c_args = Null
    /\ c_outcome = "none"
    /\ c_storageOk = FALSE
    /\ c_attempts = 0
    /\ c_audits = <<>>
    /\ c_rows = <<>>
    /\ c_token = Null
    /\ c_prev = Null
    /\ cache = {}
    /\ h_fresh = {}
    /\ c_adapter = 0
    /\ c_cacheBefore = {}
    /\ c_count = 0

NextReadLimit ==
    \/ Read
    \/ ReadOne
    \/ Forget

\* read (no limit) and read_one (limit=1) of a cached model over a table
\* that is not written
SpecReadLimit == InitStaticTable /\ [][NextReadLimit]_vars

\* ------------------ threads inside read and create of one cached model
\* Each thread runs DatabaseFactory.read or DatabaseFactory.create of the
\* model; a step is one access to the cache or to the storage adapter.
\* No lock is taken by either method.
ThreadCtx == [tenant |-> "t1", tctx |-> FALSE]

\* read, "Cache check": self._cache.get(model_name, query or {})
ReadCacheCheck(th) ==
    /\ t_pc[th] = "idle"
    /\ \E query \in CallerQueries :
          LET q == ReadQuery(cfg, query, FALSE, ThreadCtx)
              cached == CacheGet(cache, ModelName, q)
          IN /\ t_query' = [t_query EXCEPT ![th] = q]
             /\ t_rows' = [t_rows EXCEPT ![th] = cached.value]
             /\ t_pc' = [t_pc EXCEPT ![th] = IF cached.found THEN "read_hit" ELSE "read_miss"]
    /\ UNCHANGED <<auditVars, crudVars, pureVars, lockVars>>

\* read._op: raw_rows = self._sql.select(...) / self._nosql.query(...)
ReadFetch(th) ==
    /\ t_pc[th] = "read_miss"
    /\ t_rows' = [t_rows EXCEPT ![th] = IF cfg.storage = "sql"
                                        THEN Select(db, t_query[th], 0, 0)
                                        ELSE Query(db, t_query[th], 0)]
    /\ t_pc' = [t_pc EXCEPT ![th] = "read_fetched"]
    /\ UNCHANGED <<auditVars, crudVars, pureVars, lockVars, t_query>>

\* read._op, "Set external cache": self._cache.set(model_name, query, rows, ttl)
ReadCacheSet(th) ==
    /\ t_pc[th] = "read_fetched"
    /\ cache' = CacheSet(cache, ModelName, t_query[th], t_rows[th])
    /\ Cardinality(cache') <= MaxCached
    /\ t_pc' = [t_pc EXCEPT ![th] = "read_set"]
    /\ UNCHANGED <<auditVars, pureVars, lockVars, t_query, t_rows, cfg, db, c_op, c_args, c_outcome,
                   c_storageOk, c_attempts, c_audits, c_rows, c_token, c_prev, h_fresh,
                   c_adapter, c_cacheBefore, c_count>>

\* read returns rows (the cached ones, or those _op returned)
ReadReturn(th) ==
    /\ t_pc[th] \in {"read_hit", "read_set"}
    /\ t_pc' = [t_pc EXCEPT ![th] = "idle"]
    /\ t_query' = [t_query EXCEPT ![th] = Null]
    /\ t_rows' = [t_rows EXCEPT ![th] = <<>>]
    /\ UNCHANGED <<auditVars, crudVars, pureVars, lockVars>>

\* create._op: result = self._sql.insert(...) / self._nosql.put(...)
CreateStore(th) ==
    /\ t_pc[th] = "idle"
    /\ \E id \in Ids :
          LET data == ("id" :> id) @@ ("tenant_id" :> ThreadCtx.tenant)
              step == IF cfg.storage = "sql" THEN Insert(db, id, data) ELSE Put(db, id, data)
          IN /\ step.ok
             /\ step.db # db
             /\ db' = step.db
    /\ t_pc' = [t_pc EXCEPT ![th] = "create_stored"]
    /\ UNCHANGED <<auditVars, pureVars, lockVars, t_query, t_rows, cfg, cache, c_op, c_args, c_outcome,
                   c_storageOk, c_attempts, c_audits, c_rows, c_token, c_prev, h_fresh,
                   c_adapter, c_cacheBefore, c_count>>

\* create._op, "Cache invalidation": self._cache.invalidate(model_name);
\* _op returns and create returns after it
CreateInvalidate(th) ==
    /\ t_pc[th] = "create_stored"
    /\ cache' = InvalidateAfterWrite(cfg, cache, TRUE)
    /\ t_pc' = [t_pc EXCEPT ![th] = "idle"]
    /\ UNCHANGED <<auditVars, pureVars, lockVars, t_query, t_rows, cfg, db, c_op, c_args, c_outcome,
                   c_storageOk, c_attempts, c_audits, c_rows, c_token, c_prev, h_fresh,
                   c_adapter, c_cacheBefore, c_count>>

InitRace ==
    /\ InitFactory
    /\ InitPure
    /\ cfg \in {c \in CacheConfigs : c.meta_cache}

NextRace ==
    \E th \in Threads :
        \/ ReadCacheCheck(th)
        \/ ReadFetch(th)
        \/ ReadCacheSet(th)
        \/ ReadReturn(th)
        \/ CreateStore(th)
        \/ CreateInvalidate(th)

\* Threads reading and creating rows of a cached model, interleaved at
\* every access to the cache and to storage
SpecRace == InitRace /\ [][NextRace]_vars

\* ----------------------- PostgreSQLAdapter.distributed_lock(lock_name)
\* The sessions of the pool.  A connection is one PostgreSQL session; an
\* advisory lock taken with pg_advisory_lock belongs to the session, is
\* re-entrant in it, survives ROLLBACK and COMMIT, and is given up by
\* pg_advisory_unlock or when the session ends
Conns == 1..(MinConn + NumThreads)

Borrowed == {t_conn[th] : th \in Threads} \ {0}

RangeOf(seq) == {seq[n] : n \in 1..Len(seq)}

\* ThreadedConnectionPool.getconn: the idle connection put last, or a new
\* connection when none is idle
GetConn ==
    IF pool # <<>>
    THEN [conn |-> pool[Len(pool)], pool |-> SubSeq(pool, 1, Len(pool) - 1)]
    ELSE [conn |-> CHOOSE c \in Conns \ Borrowed : \A o \in Conns \ Borrowed : c <= o,
          pool |-> pool]

\* ThreadedConnectionPool.putconn: the connection is kept while fewer than
\* minconn connections are idle, and closed otherwise; closing ends the
\* session and with it the locks it holds
PutConn(conn) ==
    IF Len(pool) < MinConn
    THEN [pool |-> Append(pool, conn), advisory |-> advisory]
    ELSE [pool |-> pool,
          advisory |-> IF advisory.holder = conn THEN [holder |-> 0, count |-> 0]
                       ELSE advisory]

\* conn.rollback() in the except branch: session-level advisory locks are
\* not transactional, the rollback leaves them held
Rollback(adv, conn) == adv

\* conn = self._get_connection(); cursor = conn.cursor()
LockGetConnection(th) ==
    /\ t_pc[th] = "idle"
    /\ t_conn[th] = 0
    /\ LET got == GetConn
       IN /\ t_conn' = [t_conn EXCEPT ![th] = got.conn]
          /\ pool' = got.pool
    /\ t_pc' = [t_pc EXCEPT ![th] = "connected"]
    /\ UNCHANGED <<auditVars, crudVars, pureVars, t_query, t_rows, advisory>>

\* cursor.execute("SELECT pg_advisory_lock(%s);"): waits while another
\* session holds the lock; then yield
LockAcquire(th) ==
    /\ t_pc[th] = "connected"
    /\ advisory.holder \in {0, t_conn[th]}
    /\ advisory' = [holder |-> t_conn[th], count |-> advisory.count + 1]
    /\ t_pc' = [t_pc EXCEPT ![th] = "inside"]
    /\ UNCHANGED <<auditVars, crudVars, pureVars, t_query, t_rows, t_conn, pool>>

\* the block ends normally: pg_advisory_unlock, cursor.close(), conn.commit()
LockRelease(th) ==
    /\ t_pc[th] = "inside"
    /\ advisory' = IF advisory.count = 1 THEN [holder |-> 0, count |-> 0]
                   ELSE [advisory EXCEPT !.count = @ - 1]
    /\ t_pc' = [t_pc EXCEPT ![th] = "leaving"]
    /\ UNCHANGED <<auditVars, crudVars, pureVars, t_query, t_rows, t_conn, pool>>

\* the block raises: the exception enters the generator at yield and is
\* caught by "except Exception": conn.rollback(), raise DatabaseError
LockBlockRaises(th) ==
    /\ t_pc[th] = "inside"
    /\ advisory.count <= MaxLeaks
    /\ advisory' = Rollback(advisory, t_conn[th])
    /\ t_pc' = [t_pc EXCEPT ![th] = "raising"]
    /\ UNCHANGED <<auditVars, crudVars, pureVars, t_query, t_rows, t_conn, pool>>

\* finally: self._return_connection(conn)
LockReturnConnection(th) ==
    /\ t_pc[th] \in {"leaving", "raising"}
    /\ LET put == PutConn(t_conn[th])
       IN /\ pool' = put.pool
          /\ advisory' = put.advisory
    /\ t_conn' = [t_conn EXCEPT ![th] = 0]
    /\ t_pc' = [t_pc EXCEPT ![th] = "idle"]
    /\ UNCHANGED <<auditVars, crudVars, pureVars, t_query, t_rows>>

\* _initialize_pool: minconn connections are opened and idle
InitLock ==
    /\ InitAudit
    /\ InitNoFactory
    /\ InitPure
    /\ t_pc = [th \in Threads |-> "idle"]
    /\ t_query = [th \in Threads |-> Null]
    /\ t_rows = [th \in Threads |-> <<>>]
    /\ t_conn = [th \in Threads |-> 0]
    /\ pool = [n \in 1..MinConn |-> n]
    /\ advisory = [holder |-> 0, count |-> 0]

NextLock ==
    \E th \in Threads :
        \/ LockGetConnection(th)
        \/ LockAcquire(th)
        \/ LockRelease(th)
        \/ LockBlockRaises(th)
        \/ LockReturnConnection(th)

\* Threads entering and leaving "with adapter.distributed_lock(name):"
SpecLock == InitLock /\ [][NextLock]_vars

\* --------------------------- NoSQLKVAdapter._get_pk_rk, put, patch, delete
\* Field values are numbers: ids 1..NumIds, tenants 11 and 12.  A key is a
\* string, written as the record of its parts: a literal prefix (0: none,
\* 1: "default_", 2: "t_"), the value converted by str (0: the literal
\* "default"), and the length of an md5 hex digest when the value is the
\* digest of the JSON of the data (0: no digest), v then naming the data
KeyText(prefix, v, digest) == [prefix |-> prefix, v |-> v, digest |-> digest]

\* str(value)
Str(v) == KeyText(0, v, 0)

\* json.dumps(data, sort_keys=True) identifies the data: a number per dict
DataCode(data) ==
    (IF "id" \in DOMAIN data THEN data["id"] ELSE 0) * 100
        + (IF "tenant_id" \in DOMAIN data THEN data["tenant_id"] ELSE 0)

\* hashlib.md5(json.dumps(data, sort_keys=True)).hexdigest()[:n]
Md5Hex(data, n) == KeyText(0, DataCode(data), n)

\* template.format(**data) of a template prefix + "{field}": KeyError when
\* the field is not in data
Format(template, data) ==
    IF template.field \in DOMAIN data
    THEN [ok |-> TRUE, text |-> KeyText(template.prefix, data[template.field], 0)]
    ELSE [ok |-> FALSE, text |-> KeyText(0, 0, 0)]

NoTemplate == [prefix |-> 0, field |-> ""]

NoPartitionConfig == [configured |-> FALSE, partition_key_template |-> NoTemplate,
                      row_key_template |-> NoTemplate]

\* _get_pk_rk(model, data); meta.get('pk_field', 'id'), meta.get('rk_field')
GetPkRk(meta, partition_config, data) ==
    LET pk_field == meta.pk_field
        rk_field == meta.rk_field
        formatted == Format(partition_config.partition_key_template, data)
        pk == IF partition_config.configured
              THEN IF formatted.ok THEN formatted.text
                   ELSE IF pk_field \in DOMAIN data THEN KeyText(1, data[pk_field], 0)
                   ELSE KeyText(1, DataCode(data), 8)
              ELSE IF pk_field \in DOMAIN data THEN Str(data[pk_field])
              ELSE Str(0)
        row == Format(partition_config.row_key_template, data)
        rk == IF rk_field # "" /\ rk_field \in DOMAIN data THEN Str(data[rk_field])
              ELSE IF partition_config.configured
                      /\ partition_config.row_key_template # NoTemplate
              THEN IF row.ok THEN row.text ELSE Md5Hex(data, 32)
              ELSE IF "id" \in DOMAIN data THEN Str(data["id"])
              ELSE Md5Hex(data, 32)
    IN [pk |-> pk, rk |-> rk]

\* MongoDBAdapter._put_raw on a collection of documents keyed by (_pk, _rk)
KeyedPutRaw(store, key, data) ==
    LET old == {d \in store : d.key = key}
        merged == IF old = {} THEN data ELSE data @@ (CHOOSE d \in old : TRUE).data
    IN (store \ old) \cup {[key |-> key, data |-> merged]}

\* MongoDBAdapter._delete_raw: delete_one({_pk, _rk})
KeyedDeleteRaw(store, key) == {d \in store : d.key # key}

\* put
KeyedPutCall(meta, partition_config, store, data) ==
    LET key == GetPkRk(meta, partition_config, data)
    IN [key |-> key, store |-> KeyedPutRaw(store, key, data)]

\* patch with a scalar entity_id, replace = False
KeyedPatchCall(meta, partition_config, store, entity_id, data) ==
    LET key == GetPkRk(meta, partition_config, ("id" :> entity_id))
        existing == {d \in store : d.key = key}
        merged == IF existing = {} THEN data
                  ELSE data @@ (CHOOSE d \in existing : TRUE).data
    IN [key |-> key, store |-> KeyedPutRaw(store, key, merged)]

\* delete with a scalar entity_id
KeyedDeleteCall(meta, partition_config, store, entity_id) ==
    LET key == GetPkRk(meta, partition_config, ("id" :> entity_id))
    IN [key |-> key, store |-> KeyedDeleteRaw(store, key)]

KeyFields == {"id", "tenant_id"}

\* __polydb__: pk_field missing (the default 'id') or given, rk_field
\* missing or given
KeyMetas == [pk_field : KeyFields, rk_field : {""} \cup KeyFields]

PartitionConfigs ==
    {NoPartitionConfig}
        \cup [configured : {TRUE},
              partition_key_template : [prefix : 1..2, field : KeyFields],
              row_key_template : {NoTemplate} \cup [prefix : {0}, field : KeyFields]]

\* records with an id, with or without a tenant
KeyedRecords ==
    {("id" :> i) : i \in Ids}
        \cup {("id" :> i) @@ ("tenant_id" :> t) : i \in Ids, t \in 11..12}

KeyedInputs == [meta : KeyMetas, partition_config : PartitionConfigs, data : KeyedRecords]

\* put(model, data) on an empty collection
KeyedPut ==
    /\ p_fn = "none"
    /\ LET r == KeyedPutCall(p_in.meta, p_in.partition_config, {}, p_in.data)
       IN p_out' = [put_key |-> r.key, key |-> r.key, store |-> r.store]
    /\ p_fn' = "put"
    /\ UNCHANGED <<raceVars, auditVars, crudVars, p_in, docs, blobs, h_written, h_altered, h_writes>>

\* patch(model, id of the record put, {"tenant_id": 12})
KeyedPatch ==
    /\ p_fn = "put"
    /\ LET r == KeyedPatchCall(p_in.meta, p_in.partition_config, p_out.store,
                               p_in.data["id"], ("tenant_id" :> 12))
       IN p_out' = [put_key |-> p_out.put_key, key |-> r.key, store |-> r.store]
    /\ p_fn' = "patch"
    /\ UNCHANGED <<raceVars, auditVars, crudVars, p_in, docs, blobs, h_written, h_altered, h_writes>>

\* delete(model, id of the record put)
KeyedDelete ==
    /\ p_fn = "put"
    /\ LET r == KeyedDeleteCall(p_in.meta, p_in.partition_config, p_out.store,
                                p_in.data["id"])
       IN p_out' = [put_key |-> p_out.put_key, key |-> r.key, store |-> r.store]
    /\ p_fn' = "delete"
    /\ UNCHANGED <<raceVars, auditVars, crudVars, p_in, docs, blobs, h_written, h_altered, h_writes>>

\* the caller starts over with an empty collection
ForgetKeyed ==
    /\ p_fn \in {"patch", "delete"}
    /\ p_fn' = "none"
    /\ p_out' = Null
    /\ UNCHANGED <<raceVars, auditVars, crudVars, p_in, docs, blobs, h_written, h_altered, h_writes>>

InitKeyed ==
    /\ InitAudit
    /\ InitNoThreads
    /\ InitNoFactory
    /\ p_fn = "none"
    /\ p_in \in KeyedInputs
    /\ p_out = Null
    /\ docs = <<>>
    /\ blobs = <<>>
    /\ h_written = <<>>
    /\ h_altered = {}
    /\ h_writes = 0

NextKeyed ==
    \/ KeyedPut
    \/ KeyedPatch
    \/ KeyedDelete
    \/ ForgetKeyed

\* put followed by patch or delete by id, for every metadata, partition
\* configuration and record
SpecKeyed == InitKeyed /\ [][NextKeyed]_vars

\* ------------------------------------------- batch.py: BatchOperations
\* A list of items is the list of what the factory call of each item does:
\* TRUE when it returns, FALSE when it raises.
\* "for record in chunk": the items first..last of one chunk, in order;
\* "break" on a failure under fail_fast leaves this loop
RECURSIVE ChunkLoop(_, _, _, _, _)
ChunkLoop(items, first, last, fail_fast, acc) ==
    IF first > last THEN acc
    ELSE LET attempted == Append(acc.attempted, first)
         IN IF items[first]
            THEN ChunkLoop(items, first + 1, last, fail_fast,
                           [acc EXCEPT !.attempted = attempted,
                                       !.succeeded = Append(@, first)])
            ELSE LET failed == [acc EXCEPT !.attempted = attempted,
                                           !.failed = Append(@, first)]
                 IN IF fail_fast THEN failed
                    ELSE ChunkLoop(items, first + 1, last, fail_fast, failed)

\* "for i in range(0, len(records), chunk_size): chunk = records[i:i + chunk_size]"
RECURSIVE ChunksLoop(_, _, _, _, _)
ChunksLoop(items, i, chunk_size, fail_fast, acc) ==
    IF i >= Len(items) THEN acc
    ELSE LET last == IF i + chunk_size < Len(items) THEN i + chunk_size ELSE Len(items)
         IN ChunksLoop(items, i + chunk_size, chunk_size, fail_fast,
                       ChunkLoop(items, i + 1, last, fail_fast, acc))

\* BatchResult(succeeded, failed, total, success_count, error_count), and
\* the items the factory was called for, in call order
BatchResult(items, acc) ==
    [attempted |-> acc.attempted, succeeded |-> acc.succeeded, failed |-> acc.failed,
     total |-> Len(items), success_count |-> Len(acc.succeeded),
     error_count |-> Len(acc.failed)]

NoneAttempted == [attempted |-> <<>>, succeeded |-> <<>>, failed |-> <<>>]

\* bulk_insert: factory.create per record
BulkInsertCall(records, chunk_size, fail_fast) ==
    BatchResult(records, ChunksLoop(records, 0, chunk_size, fail_fast, NoneAttempted))

\* bulk_update: factory.update per update
BulkUpdateCall(updates, chunk_size, fail_fast) ==
    BatchResult(updates, ChunksLoop(updates, 0, chunk_size, fail_fast, NoneAttempted))

\* bulk_delete: factory.delete per entity id
BulkDeleteCall(entity_ids, chunk_size, fail_fast) ==
    BatchResult(entity_ids, ChunksLoop(entity_ids, 0, chunk_size, fail_fast, NoneAttempted))

RECURSIVE ItemLists(_)
ItemLists(n) ==
    IF n = 0 THEN {<<>>}
    ELSE LET shorter == ItemLists(n - 1)
         IN shorter \cup {Append(l, ok) : l \in shorter, ok \in BOOLEAN}

BulkInputs == [items : ItemLists(MaxItems), chunk_size : 1..MaxChunk, fail_fast : BOOLEAN]

BulkInsert ==
    /\ p_fn = "none"
    /\ p_fn' = "bulk_insert"
    /\ p_out' = BulkInsertCall(p_in.items, p_in.chunk_size, p_in.fail_fast)
    /\ UNCHANGED <<raceVars, auditVars, crudVars, p_in, docs, blobs, h_written, h_altered, h_writes>>

BulkUpdate ==
    /\ p_fn = "none"
    /\ p_fn' = "bulk_update"
    /\ p_out' = BulkUpdateCall(p_in.items, p_in.chunk_size, p_in.fail_fast)
    /\ UNCHANGED <<raceVars, auditVars, crudVars, p_in, docs, blobs, h_written, h_altered, h_writes>>

BulkDelete ==
    /\ p_fn = "none"
    /\ p_fn' = "bulk_delete"
    /\ p_out' = BulkDeleteCall(p_in.items, p_in.chunk_size, p_in.fail_fast)
    /\ UNCHANGED <<raceVars, auditVars, crudVars, p_in, docs, blobs, h_written, h_altered, h_writes>>

\* the caller drops the BatchResult
ForgetBulk ==
    /\ p_fn # "none"
    /\ p_fn' = "none"
    /\ p_out' = Null
    /\ UNCHANGED <<raceVars, auditVars, crudVars, p_in, docs, blobs, h_written, h_altered, h_writes>>

InitBulk ==
    /\ InitAudit
    /\ InitNoThreads
    /\ InitNoFactory
    /\ p_fn = "none"
    /\ p_in \in BulkInputs
    /\ p_out = Null
    /\ docs = <<>>
    /\ blobs = <<>>
    /\ h_written = <<>>
    /\ h_altered = {}
    /\ h_writes = 0

NextBulk ==
    \/ BulkInsert
    \/ BulkUpdate
    \/ BulkDelete
    \/ ForgetBulk

\* The three bulk operations applied to every list of at most MaxItems
\* items, chunk size and fail_fast flag
SpecBulk == InitBulk /\ [][NextBulk]_vars

\* ----------------------- read_page followed to the end of a static table
PageInputs ==
    {x \in [cfg : BuilderConfigs, data : Tables, query : CallerQueries,
            page_size : 1..MaxPageSize, ctx : Contexts] : x.ctx \in ContextsOf(x.cfg)}

\* read_page(model, query, page_size=page_size)
FirstPage ==
    /\ p_fn = "none"
    /\ LET r == ReadPageCall(p_in.cfg, p_in.data, p_in.query, p_in.page_size, Null,
                             FALSE, p_in.ctx, 0, FALSE)
       IN p_out' = [pages |-> r.rows, last |-> r.rows, token |-> r.next_token, calls |-> 1]
    /\ p_fn' = "read_page"
    /\ UNCHANGED <<raceVars, auditVars, crudVars, p_in, docs, blobs, h_written, h_altered, h_writes>>

\* read_page(..., continuation_token=the token the last call returned)
NextPage ==
    /\ p_fn = "read_page"
    /\ p_out.token # Null
    /\ p_out.calls <= MaxPages
    /\ LET r == ReadPageCall(p_in.cfg, p_in.data, p_in.query, p_in.page_size, p_out.token,
                             FALSE, p_in.ctx, 0, FALSE)
       IN p_out' = [pages |-> p_out.pages \o r.rows, last |-> r.rows,
                    token |-> r.next_token, calls |-> p_out.calls + 1]
    /\ p_fn' = "read_page"
    /\ UNCHANGED <<raceVars, auditVars, crudVars, p_in, docs, blobs, h_written, h_altered, h_writes>>

\* the caller drops the pages
ForgetPages ==
    /\ p_fn = "read_page"
    /\ p_fn' = "none"
    /\ p_out' = Null
    /\ UNCHANGED <<raceVars, auditVars, crudVars, p_in, docs, blobs, h_written, h_altered, h_writes>>

InitPages ==
    /\ InitAudit
    /\ InitNoThreads
    /\ InitNoFactory
    /\ p_fn = "none"
    /\ p_in \in PageInputs
    /\ p_out = Null
    /\ docs = <<>>
    /\ blobs = <<>>
    /\ h_written = <<>>
    /\ h_altered = {}
    /\ h_writes = 0

NextPages ==
    \/ FirstPage
    \/ NextPage
    \/ ForgetPages

\* One caller paging through a table that is not written
SpecPages == InitPages /\ [][NextPages]_vars

\* ---------------------- _apply_filters and to_sql_where with operators
\* Items have an id and a numeric field n, missing when it is null.  A
\* QueryFilter is [field, operator, value] with a numeric value.
Numbers == (0 - MaxNumber)..MaxNumber

\* the Python comparison value <op> other of two numbers
PyCompare(operator, value, other) ==
    CASE operator = "==" -> value = other
      [] operator = "!=" -> value # other
      [] operator = ">" -> value > other
      [] operator = ">=" -> value >= other
      [] operator = "<" -> value < other
      [] operator = "<=" -> value <= other

\* bool(value) of item.get(field): None and 0 are falsy
Truthy(item, field) == field \in DOMAIN item /\ item[field] # 0

\* one pass of "for f in builder.filters": match stays True unless the
\* branch of the filter's operator sets it to False
FilterMatches(item, f) ==
    CASE f.operator = "==" -> ~(f.field \notin DOMAIN item \/ item[f.field] # f.value)
      [] f.operator = "!=" -> ~(f.field \in DOMAIN item /\ item[f.field] = f.value)
      [] OTHER -> Truthy(item, f.field) /\ PyCompare(f.operator, item[f.field], f.value)

\* NoSQLKVAdapter._apply_filters
ApplyOperatorFilters(results, filters) ==
    IF filters = <<>> THEN results
    ELSE SelectSeq(results, LAMBDA item :
            \A n \in 1..Len(filters) : FilterMatches(item, filters[n]))

\* QueryBuilder.to_sql_where: "field <op> %s" per filter joined by AND, run
\* as the WHERE clause: a comparison with a NULL column is not true
SqlWhereSelects(table, filters) ==
    SelectSeq(table, LAMBDA row :
        \A n \in 1..Len(filters) :
            /\ filters[n].field \in DOMAIN row
            /\ PyCompare(filters[n].operator, row[filters[n].field], filters[n].value))

OperatorFilters == [field : {"n"}, operator : {"==", "!=", ">", ">=", "<", "<="}, value : Numbers]

RECURSIVE OperatorFilterLists(_)
OperatorFilterLists(n) ==
    IF n = 0 THEN {<<>>}
    ELSE LET shorter == OperatorFilterLists(n - 1)
         IN shorter \cup {Append(fs, f) : fs \in shorter, f \in OperatorFilters}

\* datasets of NumIds items, each with n null or a number
NumberedItems == [Ids -> {MaxNumber + 1} \cup Numbers]

ItemsOf(values) ==
    [i \in Ids |-> IF values[i] = MaxNumber + 1 THEN ("id" :> i)
                   ELSE ("id" :> i) @@ ("n" :> values[i])]

FilterInputs == [values : NumberedItems, filters : OperatorFilterLists(MaxFilters)]

\* both filterings of the dataset
FilterItems ==
    /\ p_fn = "none"
    /\ p_fn' = "apply_filters"
    /\ p_out' = [nosql |-> ApplyOperatorFilters(ItemsOf(p_in.values), p_in.filters),
                 sql |-> SqlWhereSelects(ItemsOf(p_in.values), p_in.filters)]
    /\ UNCHANGED <<raceVars, auditVars, crudVars, p_in, docs, blobs, h_written, h_altered, h_writes>>

\* the caller drops the results
ForgetFiltered ==
    /\ p_fn = "apply_filters"
    /\ p_fn' = "none"
    /\ p_out' = Null
    /\ UNCHANGED <<raceVars, auditVars, crudVars, p_in, docs, blobs, h_written, h_altered, h_writes>>

InitFilters ==
    /\ InitAudit
    /\ InitNoThreads
    /\ InitNoFactory
    /\ p_fn = "none"
    /\ p_in \in FilterInputs
    /\ p_out = Null
    /\ docs = <<>>
    /\ blobs = <<>>
    /\ h_written = <<>>
    /\ h_altered = {}
    /\ h_writes = 0

NextFilters ==
    \/ FilterItems
    \/ ForgetFiltered

\* The in-memory scan and the WHERE clause on every dataset and filter list
SpecFilters == InitFilters /\ [][NextFilters]_vars

\* ================================================================== claims
AllIdle == \A th \in Threads : Idle(th)

\* The records of one tenant, as a set of rows
TenantHistory(l, t) == {l[i] : i \in {j \in DOMAIN l : l[j].tenant_id = t}}

\* Every record of the set H points at the record of H just before it in
\* timestamp order, and the earliest one at nothing
ChainLinkedIn(H) ==
    \A r \in H :
        LET before == {q \in H : q.timestamp < r.timestamp}
        IN IF before = {}
           THEN r.previous_hash = Null
           ELSE \E q \in before :
                   /\ \A o \in before : o.timestamp <= q.timestamp
                   /\ r.previous_hash = q.hash

\* C1: with concurrent record calls of one process, read-tail/compute/persist
\* of one call excludes that of every other call: no two persisted records of a
\* tenant carry the same previous_hash and, once all calls have finished,
\* verify_chain(tenant) is true.  (Stated for runs in which no tail read raised,
\* so that only the interleaving can break it.)
C1_SerializedAppend ==
    ~tailReadFailed =>
        /\ \A i, j \in DOMAIN ledger :
              (i # j /\ ledger[i].tenant_id = ledger[j].tenant_id)
                  => ledger[i].previous_hash # ledger[j].previous_hash
        /\ AllIdle => \A t \in TenantIds : VerifyChain(ledger, t)

\* C2: N record calls one after another for a single tenant, every record
\* persisted: verify_chain(tenant) is true.
C2_SequentialChainValid ==
    (AllIdle /\ ~overlapped /\ ~persistFailed /\ Cardinality(calledTenants) <= 1)
        => \A t \in calledTenants : VerifyChain(ledger, t)

\* C3: verify_chain(tenant) is true exactly when, in ascending timestamp order,
\* the tenant's first record has a null previous_hash and every later one the
\* hash of the record just before it: true for an empty history, false as soon
\* as a record with an incorrect previous_hash sits anywhere in it.  Called
\* without a tenant (None) the same walk runs over the whole table.
C3_VerifyChainIffLinked ==
    /\ \A t \in TenantIds :
          /\ VerifyChain(ledger, t) = ChainLinkedIn(TenantHistory(ledger, t))
          /\ TenantHistory(ledger, t) = {} => VerifyChain(ledger, t)
    /\ VerifyChain(ledger, NoTenant) = ChainLinkedIn({ledger[i] : i \in DOMAIN ledger})

\* C3 witness: a foreign record with an incorrect previous_hash was inserted
\* into a tenant's history of two or more records, and verify_chain is false
C3_Witness ==
    /\ edits > 0
    /\ \E t \in TenantIds :
          /\ Cardinality(TenantHistory(ledger, t)) >= 2
          /\ ~VerifyChain(ledger, t)
          /\ \E u \in TenantValues \ {t} : TenantHistory(ledger, u) # {}

\* C4: every persisted record's previous_hash is the hash of the most recent
\* earlier-persisted record with the record's own tenant_id, and null only when
\* there is none, for every tenant value, "no tenant" included.  (Stated for
\* runs without overlap and without a failed tail read.)
C4_PreviousHashOwnTenant ==
    (~overlapped /\ ~tailReadFailed) =>
        \A i \in DOMAIN ledger :
            LET earlier == {j \in 1..(i - 1) : ledger[j].tenant_id = ledger[i].tenant_id}
            IN IF earlier = {}
               THEN ledger[i].previous_hash = Null
               ELSE \E j \in earlier :
                       /\ \A o \in earlier : o <= j
                       /\ ledger[i].previous_hash = ledger[j].hash

\* C5: tamper evidence: once a field other than hash/previous_hash of a
\* persisted record has been changed, verify_chain of its tenant is false.
C5_TamperEvident ==
    \A i \in DOMAIN ledger :
        ledger[i].hash # AuditHash(ledger[i]) => ~VerifyChain(ledger, ledger[i].tenant_id)

WriteOps == {"create", "update", "upsert", "delete"}

Range(rows) == {rows[n] : n \in DOMAIN rows}

\* The stored rows a caller's query is about: every filter of the query holds,
\* by ordinary equality, and the row belongs to the caller's tenant
Matching(d, query, tenant) ==
    {i \in Stored(d) :
        /\ \A k \in DOMAIN query : Column(d, i, k) = query[k]
        /\ tenant # NoTenant => d[i].tenant_id = tenant}

\* C6: with auditing enabled, every create, update, upsert or delete makes
\* exactly one AuditManager.record invocation, whether it returns or raises at
\* any step (tenancy, row-level security, pre-operation fetch, storage) and
\* however often the storage step was retried; the record states whether the
\* storage step succeeded.
C6_OneAuditPerWrite ==
    (c_op \in WriteOps /\ cfg.audit) =>
        /\ Len(c_audits) = 1
        /\ c_audits[1].success = c_storageOk

\* C7: when an AuditManager.record invocation of a create/update/upsert/delete
\* raised (audit persistence failed), the call ends as its storage step did: it
\* returns and the written row is in storage (gone, after a hard delete) when
\* the storage step succeeded, and raises the storage error when it failed.
C7_AuditFailureHarmless ==
    (c_op \in WriteOps /\ \E n \in DOMAIN c_audits : c_audits[n].failed) =>
        /\ c_storageOk =>
              /\ c_outcome = "returned"
              /\ IF c_op # "delete" THEN db[c_args.id].present
                 ELSE IF cfg.soft_delete /\ ~c_args.hard
                      THEN db[c_args.id].present /\ db[c_args.id].deleted_at # 0
                      ELSE ~db[c_args.id].present
        /\ ~c_storageOk => c_outcome = "raised_storage"

\* C7 witness: the audit record of a write that succeeded in storage could not
\* be persisted, and the call returned
C7_Witness ==
    /\ c_op \in WriteOps
    /\ c_storageOk
    /\ c_outcome = "returned"
    /\ c_audits # <<>>
    /\ c_audits[Len(c_audits)].failed
    /\ c_audits[Len(c_audits)].action = c_op

\* C8: with soft delete enabled, after delete(model, id) the row is in storage
\* with deleted_at set; a later read with include_deleted=false returns every
\* matching row that is not soft-deleted and none that is; after
\* delete(model, id, hard=True) the row is gone from storage.
C8_SoftDeleteReads ==
    cfg.soft_delete =>
        /\ (c_op = "delete" /\ c_outcome = "returned" /\ ~c_args.hard) =>
              db[c_args.id].present /\ db[c_args.id].deleted_at # 0
        /\ (c_op = "delete" /\ c_outcome = "returned" /\ c_args.hard) =>
              ~db[c_args.id].present
        /\ (/\ c_op = "read"
            /\ c_outcome = "returned"
            /\ ~c_args.include_deleted
            /\ \E i \in Stored(db) : db[i].deleted_at # 0) =>
              Range(c_rows) = {i \in Matching(db, c_args.query, c_args.tenant) :
                                  db[i].deleted_at = 0}

\* C9: read, read_one and read_page with include_deleted=True return exactly
\* the rows matching the caller's query, soft-deleted or not (read_one the
\* first of them, read_page the first page of them), whether soft delete is
\* enabled or not.
C9_IncludeDeletedKeepsQuery ==
    (/\ c_op \in {"read", "read_one", "read_page"}
     /\ c_outcome = "returned"
     /\ c_args.include_deleted
     /\ c_prev = Null) =>
        LET matching == Matching(db, c_args.query, c_args.tenant)
            most == IF c_op = "read" THEN Cardinality(matching)
                    ELSE IF c_op = "read_one" THEN 1
                    ELSE c_args.page_size
        IN /\ Range(c_rows) \subseteq matching
           /\ Len(c_rows) = IF Cardinality(matching) < most
                            THEN Cardinality(matching) ELSE most

\* C10: over a static set of N matching rows and a page size P < N,
\* read_page(page_size=P) returns P rows and a token, and read_page called
\* again with that token returns the other N-P rows and a null token, on the
\* relational and on the schemaless path.  (Stated with soft delete disabled and
\* include_deleted=false, where the adapter receives the caller's query.)
C10_SecondPageIsRemainder ==
    (/\ c_op = "read_page"
     /\ c_outcome = "returned"
     /\ c_prev # Null
     /\ ~cfg.soft_delete
     /\ ~c_args.include_deleted) =>
        LET matching == Matching(db, c_args.query, c_args.tenant)
        IN (c_prev.continuation_token = Null /\ Cardinality(matching) > c_args.page_size) =>
              /\ Len(c_prev.rows) = c_args.page_size
              /\ c_prev.next_token # Null
              /\ Range(c_rows) = matching \ Range(c_prev.rows)
              /\ Len(c_rows) = Cardinality(matching) - c_args.page_size
              /\ c_token = Null

C12_WriteInvalidatesModel ==
    /\ (c_op \in WriteOps /\ c_storageOk /\ cfg.cache) =>
          /\ \A e \in cache : e.key.model # ModelName
          /\ {e \in cache : e.key.model # ModelName}
                = {e \in c_cacheBefore : e.key.model # ModelName}
    /\ (/\ c_op \in {"read", "read_one"}
        /\ c_outcome = "returned"
        /\ \A e \in c_cacheBefore : e.key.model # ModelName) => c_adapter >= 1

\* C12 witness: a successful write found an entry of its model and one of the
\* other model in the cache
C12_Witness ==
    /\ c_op \in WriteOps
    /\ c_storageOk
    /\ \E e \in c_cacheBefore : e.key.model = ModelName
    /\ \E e \in cache : e.key.model = OtherModel

\* C13: for every builder of EQ filters and every dataset, the relational
\* query_linq and the in-memory query_linq return the same set of rows
C13_LinqSameRows ==
    (p_fn = "query_linq" /\ ~p_in.builder.count_only
        /\ p_out.sql.outcome = "ok" /\ p_out.nosql.outcome = "ok")
    => Range(p_out.sql.rows) = Range(p_out.nosql.rows)

\* the ids whose last written record was larger than max_size
Oversized == {i \in DOMAIN h_written : SizeOf(Dumps(h_written[i])) > MaxSize}

\* the blob behind the stored document of id i was altered after the write
BlobAltered(i) == "_blob_key" \in DOMAIN docs[i] /\ docs[i]["_blob_key"] \in h_altered

\* a read of the whole collection
ReadBack == p_fn = "query" /\ p_in = NoQuery

Satisfies(data, query) == \A k \in DOMAIN query : Get(data, k) = query[k]

\* C15: query, query_page and query_linq evaluate the filter on the resolved
\* record: an overflowed record is returned exactly when its original fields
\* match the filter
C15_FiltersSeeResolvedRecords ==
    (p_fn \in {"query", "query_page", "query_linq"} /\ h_altered = {} /\ p_out.outcome = "ok")
    => \A i \in Oversized :
          Satisfies(h_written[i], p_in) <=> h_written[i] \in Range(p_out.rows)

ReadOps == {"read", "read_one", "read_page"}

\* C16: while a tenant context T is active, read, read_one and read_page
\* return only rows whose tenant_id is T, whatever keys the caller's query
\* contains
C16_ReadsOnlyOwnTenant ==
    (c_op \in ReadOps /\ c_outcome = "returned" /\ c_args.tenant # NoTenant)
    => \A i \in Range(c_rows) : db[i].tenant_id = c_args.tenant

\* C17: while a tenant context T is active, query_linq returns or counts
\* only rows of tenant T, on both storage kinds, with or without a tenant
\* enforcer or row-level security configured
C17_QueryLinqOnlyOwnTenant ==
    (c_op = "query_linq" /\ c_outcome = "returned" /\ c_args.tenant # NoTenant)
    => /\ \A i \in Range(c_rows) : db[i].tenant_id = c_args.tenant
       /\ c_args.builder.count_only =>
             c_count = Cardinality({i \in Stored(db) : db[i].tenant_id = c_args.tenant})

\* C18: a create, update, upsert or delete made without a tenant context
\* raises before the storage adapter is called and leaves storage unchanged;
\* with tenant T active the row written by create or upsert carries
\* tenant_id = T
C18_WritesNeedTenant ==
    [][(c_op = "none" /\ c_op' \in WriteOps) =>
          /\ c_args'.tenant = NoTenant =>
                (c_outcome' # "returned" /\ c_attempts' = 0 /\ db' = db)
          /\ (c_args'.tenant # NoTenant /\ c_op' \in {"create", "upsert"} /\ c_storageOk') =>
                db'[c_args'.id].tenant_id = c_args'.tenant]_vars

\* a policy tagged 'write' or 'both' returns false for the data
WriteBlocked(data) ==
    \E policy \in cfg.policies :
        policy.apply_to \in {"write", "both"} /\ ~PolicyFunc(policy, data)

C20_ReadPoliciesFilterRows ==
    (c_op \in ReadOps \cup {"query_linq"} /\ c_outcome = "returned" /\ cfg.rls)
    => \A i \in Range(c_rows) :
          \A policy \in cfg.policies :
              policy.apply_to \in {"read", "both"} => PolicyFunc(policy, Item(db, i))

\* the fields the model declares sensitive in __polydb__
Declared(raw_meta) ==
    IF "encrypted_fields" \in DOMAIN raw_meta THEN raw_meta["encrypted_fields"] ELSE {}

\* C21: with encryption enabled, every value of a declared sensitive field
\* that create, update or upsert hands to the adapter is ciphertext carrying
\* the marker, never the plaintext
C21_SensitiveFieldsEncrypted ==
    (p_fn \in {"create", "update", "upsert"} /\ p_in.encryption) =>
        \A f \in Declared(p_in.raw_meta) \cap DOMAIN p_in.data :
            p_in.data[f].kind # "none" =>
                (p_out[f].kind = "cipher" /\ p_out[f].marker /\ p_out[f] # p_in.data[f])

\* C25: when decrypting a stored value that carries the marker fails (wrong
\* key, corrupted ciphertext), decrypt_fields returns that field exactly as
\* stored and leaves every other field unchanged
C25_DecryptFailureReturnsStored ==
    p_fn = "decrypt_fields" =>
        \A f \in DOMAIN p_in.data :
            LET v == p_in.data[f]
                fails == v.kind = "plain" \/ ~v.intact \/ v.key # p_in.key
            IN (f \notin p_in.fields \/ (v.kind # "none" /\ v.marker /\ fails))
                  => p_out[f] = v

\* the invocation at which retry stops: the first that succeeds or raises
\* an exception that is not listed, else the last one allowed
StopsAt(max_attempts, exceptions, results) ==
    LET stops == {k \in 1..max_attempts :
                    results[k] = "ok" \/ ~(BasesOf(results[k]) \cap exceptions # {})}
    IN IF stops = {} THEN max_attempts
       ELSE CHOOSE k \in stops : \A j \in stops : k <= j

\* C29: retry(max_attempts = n), n >= 1, invokes the function at most n
\* times; it returns the first success, re-raises the last exception after n
\* failures of a listed class, and lets an exception of another class out at
\* once; _run makes a bounded number of attempts
C29_RetryBounded ==
    /\ p_fn = "retry" =>
        LET n == p_in.max_attempts
            k == StopsAt(n, p_in.exceptions, p_in.results)
        IN /\ p_out.calls \in 1..n
           /\ p_out.calls = k
           /\ p_in.results[k] = "ok" => (p_out.kind = "returned")
           /\ p_in.results[k] # "ok" =>
                (p_out.kind = "raised" /\ p_out.error = p_in.results[k])
    /\ p_fn = "_run" =>
        p_out.attempts \in 1..(IF p_in.retries THEN MaxAttempts ELSE 1)

\* n listed failures in a row, the last one raised
C29_Witness ==
    /\ p_fn = "retry"
    /\ p_in.max_attempts = 3
    /\ p_in.exceptions = {"StorageError"}
    /\ \A k \in 1..3 : p_in.results[k] = "StorageError"
    /\ p_out.calls = 3
    /\ p_out.kind = "raised"

\* C22: when the blob of an overflow stub fails the checksum on read, the
\* failure is raised after exactly one fetch of the blob: neither the
\* engine's retry wrapper nor the orchestrator's retry fetches it again
C22_ChecksumFailureFetchedOnce ==
    (/\ p_fn \in {"query", "read"}
     /\ p_out.outcome = "raised_storage"
     /\ \A k \in h_altered : IsJson(blobs[k]))
        => p_out.fetches = 1

\* the identifiers handed to the operation
GivenIdents ==
    {p_in.table, p_in.column}

\* C23: an invalid table or column identifier given to insert, select,
\* update, upsert, delete or query_linq produces a validation failure after a
\* single attempt, retried neither by the adapter's wrapper nor by the
\* orchestrator
C23_InvalidIdentifierFailsOnce ==
    (/\ p_fn \in SqlOps
     /\ \/ ~ReMatch(p_in.table, TableChars)
        \/ ~ReMatch(p_in.column, ColumnChars))
        => (p_out.outcome = "ValidationError" /\ p_out.invocations = 1)

\* letters, digits and the underscore only
OnAllowList(name) == Len(name) > 0 /\ \A i \in 1..Len(name) : name[i] \in ColumnChars

\* C24: every table and column identifier interpolated into executed SQL
\* text consists of letters, digits and underscores; an operation given an
\* identifier with any other character fails without executing SQL
C24_OnlyAllowListedIdentifiers ==
    p_fn \in SqlOps =>
        /\ p_out.executions > 0 => \A name \in p_out.idents : OnAllowList(name)
        /\ (\E name \in GivenIdents : ~OnAllowList(name)) =>
                (p_out.executions = 0 /\ p_out.outcome # "ok")

\* the positions of the records that satisfy every filter
MatchingRows(data, builder) ==
    {n \in 1..Len(data) :
        \A k \in 1..Len(builder.filters) :
            Get(data[n], FieldOf(builder.filters[k])) = ValueOf(builder.filters[k])}

\* record x comes strictly before record y in the order of the keys, a
\* missing field counting as the least value
KeysBefore(x, y, fields) ==
    \E k \in 1..Len(fields) :
        /\ \A j \in 1..(k - 1) : SortKey(x, fields[j].field) = SortKey(y, fields[j].field)
        /\ IF fields[k].desc
           THEN SortKey(x, fields[k].field) > SortKey(y, fields[k].field)
           ELSE SortKey(x, fields[k].field) < SortKey(y, fields[k].field)

\* the position that comes r-th among the matching ones: by the keys in call
\* order, then by input order
RankedAt(data, builder, r) ==
    LET match == MatchingRows(data, builder)
        fields == builder.order_by_fields
        before(j, i) == \/ KeysBefore(data[j], data[i], fields)
                        \/ (~KeysBefore(data[i], data[j], fields) /\ j < i)
    IN CHOOSE i \in match : Cardinality({j \in match : before(j, i)}) = r - 1

\* the page: the records ranked skip+1 .. skip+take among the matching ones,
\* cut to the selected fields
Window(data, builder) ==
    LET total == Cardinality(MatchingRows(data, builder))
        first == builder.skip_count + 1
        last == IF builder.take_count # 0 /\ builder.skip_count + builder.take_count < total
                THEN builder.skip_count + builder.take_count ELSE total
    IN [k \in 1..(IF last >= first THEN last - first + 1 ELSE 0) |->
            LET item == data[RankedAt(data, builder, first + k - 1)]
            IN IF builder.select_fields = <<>> THEN item
               ELSE [f \in DOMAIN item \cap FieldSet(builder.select_fields) |-> item[f]]]

\* rows is w without the rows that repeat an earlier row of w
FirstOccurrences(rows, w) ==
    LET keep == {k \in 1..Len(w) : \A m \in 1..(k - 1) : w[m] # w[k]}
    IN /\ Len(rows) = Cardinality(keep)
       /\ \A k \in keep : rows[1 + Cardinality({m \in keep : m < k})] = w[k]

\* C26: the in-memory query_linq filters, then counts, then orders, then
\* pages, then projects, then removes duplicates: the count is the number of
\* matching records whatever skip and take are; the rows are the page of the
\* matching records in key order (keys outside the projection included), cut
\* to the selected fields, and distinct keeps the first of equal page rows
C26_StepsInOrder ==
    /\ p_fn = "count" =>
        p_out.nosql.count = Cardinality(MatchingRows(p_in.data, p_in.builder))
    /\ p_fn = "query_linq" =>
        /\ p_out.outcome = "ok"
        /\ IF p_in.builder.distinct
           THEN FirstOccurrences(p_out.rows, Window(p_in.data, p_in.builder))
           ELSE p_out.rows = Window(p_in.data, p_in.builder)

\* ordered by a field that is not selected, after a skip, a repeated row
\* of the page dropped
C26_Witness ==
    /\ p_fn = "query_linq"
    /\ p_in.builder.distinct
    /\ p_in.builder.select_fields = <<"b">>
    /\ Len(p_in.builder.order_by_fields) = 2
    /\ p_in.builder.order_by_fields[1].field = "a"
    /\ p_in.builder.skip_count = 1
    /\ p_in.builder.take_count = 0
    /\ Len(p_in.data) = 3
    /\ Len(p_out.rows) = 1

\* every record has a value for every sort key
HasSortKeys ==
    \A n \in 1..Len(p_in.data), k \in 1..Len(p_in.builder.order_by_fields) :
        p_in.builder.order_by_fields[k].field \in DOMAIN p_in.data[n]

C28_CountSame ==
    p_fn = "count" =>
        /\ p_out.sql.outcome = "ok"
        /\ p_out.nosql.outcome = "ok"
        /\ p_out.sql.count = Cardinality(MatchingRows(p_in.data, p_in.builder))
        /\ p_out.nosql.count = p_out.sql.count

\* the snapshots of the audit record of the update or delete just made
SnapshotsOf(ctx) ==
    IF c_op' = "update"
    THEN UpdateSnapshots(cfg, db, c_args'.id, c_args'.data, ctx)
    ELSE DeleteSnapshots(cfg, db, c_args'.id, c_args'.hard, ctx)

\* C30: the 'before' snapshot in the audit record of an update or delete is
\* the stored state, just before the operation, of the entity addressed by
\* entity_id, or null if there is none; for update the 'after' snapshot is
\* the operation's own result
C30_SnapshotsOfAddressedEntity ==
    [][(/\ c_op' \in {"update", "delete"}
        /\ c_audits' # <<>>
        /\ c_audits'[Len(c_audits')].action \in {"update", "delete"})
        => \E ctx \in ContextsOf(cfg) :
            /\ ctx.tenant = c_args'.tenant
            /\ cfg.enforcer => ctx.tctx
            /\ SnapshotsOf(ctx).before
                    = (IF db[c_args'.id].present THEN Snapshot(db, c_args'.id)
                       ELSE NoSnapshot)
            /\ (c_op' = "update" /\ c_storageOk')
                    => SnapshotsOf(ctx).after = Snapshot(db', c_args'.id)]_vars

\* C31: executing a QueryBuilder leaves it unchanged: after query_linq
\* returns, the caller's builder has the filters, sort keys, skip, take,
\* projection and flags it had before the call, and a later run of the
\* same builder yields what the caller's own filters select under the
\* context of that run.
C31_BuilderUnchanged ==
    (p_fn = "execute_builder" /\ p_out.outcome = "returned") =>
        /\ p_out.builder = p_out.before
        /\ LET own == QueryLinqCall(p_in.cfg, p_in.data, p_in.builder, p_out.ctx, 0, FALSE)
           IN p_out.rows = own.rows /\ p_out.count = own.count

\* the limit a call passes to read
LimitOf(op) == IF op = "read_one" THEN 1 ELSE 0

\* C32: a read answered from the cache returns the rows the same call
\* (same model, query, limit) would have returned from storage, no write
\* to the model having happened since the entry was stored: results of
\* reads that differ in limit (read_one uses limit=1) are not served for
\* one another.
C32_CachedAsStorage ==
    (c_op \in {"read", "read_one"} /\ c_outcome = "returned" /\ ~c_args.no_cache
        /\ c_adapter = 0) =>
        c_rows = ReadCall(cfg, ModelName, db, {}, c_args.query, LimitOf(c_op),
                          c_args.include_deleted, TRUE,
                          [tenant |-> c_args.tenant, tctx |-> FALSE], 0, FALSE).rows

\* what storage holds for the query of a cache entry
StoredRows(e) ==
    IF cfg.storage = "sql" THEN Select(db, e.key.query, 0, 0) ELSE Query(db, e.key.query, 0)

\* C33: under any interleaving of a cached read of the model with a
\* concurrent write to it, once the write has returned no read that starts
\* is served pre-write data from the cache: when no write is between its
\* storage step and its invalidation, every cache entry of the model holds
\* the rows storage holds for its query.
C33_NoStaleEntryAfterWrite ==
    (\A th \in Threads : t_pc[th] # "create_stored") =>
        \A e \in cache : e.key.model = ModelName => e.value = StoredRows(e)

\* C34: distributed_lock gives mutual exclusion and always releases: at
\* most one holder is inside the block for the lock name, and when the
\* block has been left, normally or by an exception, and the connection
\* returned to the pool, the advisory lock is not held any more.
C34_LockExclusiveAndReleased ==
    /\ Cardinality({th \in Threads : t_pc[th] = "inside"}) <= 1
    /\ (\A th \in Threads : t_pc[th] = "idle") => advisory.holder = 0

\* C35: for every record written with put, a later patch or delete
\* addressed by the record's id derives the (partition key, row key) pair
\* the put derived, for every model metadata and partition configuration,
\* so it acts on that record: after the delete the record is gone, after
\* the patch it is the one stored document.
C35_SameKeyAsPut ==
    (p_fn \in {"patch", "delete"}) =>
        /\ p_out.key = p_out.put_key
        /\ p_fn = "delete" => p_out.store = {}
        /\ p_fn = "patch" => Cardinality(p_out.store) = 1

\* the position of the first failing item, or the length of the list
FirstFailure(items) ==
    IF \E n \in 1..Len(items) : ~items[n]
    THEN CHOOSE n \in 1..Len(items) : ~items[n] /\ \A m \in 1..(n - 1) : items[m]
    ELSE Len(items)

\* C36: bulk_insert, bulk_update and bulk_delete with fail_fast=True stop
\* at the first failing item, no item after it is attempted, for every
\* list length and chunk_size; with fail_fast=False every item is attempted
\* exactly once in list order and success_count + error_count = total.
C36_FailFastStops ==
    (p_fn \in {"bulk_insert", "bulk_update", "bulk_delete"}) =>
        IF p_in.fail_fast
        THEN p_out.attempted = [n \in 1..FirstFailure(p_in.items) |-> n]
        ELSE /\ p_out.attempted = [n \in 1..Len(p_in.items) |-> n]
             /\ p_out.success_count + p_out.error_count = p_out.total

\* C37: while tenant context T is active, update and delete (soft or
\* hard) never modify or remove a stored row whose tenant_id differs from
\* T, on both storage kinds.
C37_WritesKeepForeignRows ==
    [][(c_op = "none" /\ c_op' \in {"update", "delete"} /\ c_args'.tenant # NoTenant) =>
          \A i \in Ids :
              (db[i].present /\ db[i].tenant_id # c_args'.tenant) => db'[i] = db[i]]_vars

\* the rows the unpaged read of the same query returns
AllMatching ==
    ReadCall(p_in.cfg, ModelName, p_in.data, {}, p_in.query, 0, FALSE, TRUE, p_in.ctx,
             0, FALSE).rows

\* C38: over a static dataset, read_page called repeatedly with the token
\* of the previous call eventually returns a null token, and the pages
\* returned up to that point contain every matching record exactly once,
\* for every page size and dataset size, on both storage kinds: no record
\* is returned twice, every page before the last brings a record, and
\* with the null token all matching records have been returned.
C38_PagesCoverOnce ==
    (p_fn = "read_page") =>
        /\ \A m, n \in 1..Len(p_out.pages) : p_out.pages[m] = p_out.pages[n] => m = n
        /\ p_out.token # Null => p_out.last # <<>>
        /\ p_out.token = Null => p_out.pages = AllMatching

\* C39: field encryption round-trips: for every record, list of fields
\* and non-null field value (strings of any content, numbers, booleans,
\* lists, objects), decrypt_fields(encrypt_fields(record, fields), fields)
\* with the same key equals the record, each value keeping its type.
C39_EncryptionRoundTrip ==
    (p_fn = "decrypt_fields") => p_out.decrypted = p_in.data

\* the filters are comparisons and every item has a value for the field
ComparisonsOnValues ==
    /\ \A n \in 1..Len(p_in.filters) : p_in.filters[n].operator \in {">", ">=", "<", "<="}
    /\ \A i \in Ids : p_in.values[i] \in Numbers

\* C40: the in-memory filter scan keeps exactly the records that satisfy
\* every filter under the operator's ordinary meaning: for GT, GTE, LT and
\* LTE a record is kept iff its field value compares accordingly with the
\* filter value, for every field value including 0, which is the set the
\* relational WHERE clause selects for non-null values.
C40_ComparisonFilters ==
    (p_fn = "apply_filters" /\ ComparisonsOnValues) =>
        /\ p_out.nosql = SelectSeq(ItemsOf(p_in.values), LAMBDA item :
                            \A n \in 1..Len(p_in.filters) :
                                PyCompare(p_in.filters[n].operator, item["n"],
                                          p_in.filters[n].value))
        /\ p_out.nosql = p_out.sql

====
